---------------------------- MODULE Spec2Model ----------------------------
(***************************************************************************)
(* Model of the SAMA compliance pipeline (aion-compliance-agents):         *)
(*   - the scoring engine  SAMAComplianceSummaryAgent._calculate_scores    *)
(*   - the summary upsert  SAMAComplianceSummaryAgent.generate_summary     *)
(*   - the audit trail and anomaly detector  SAMAAuditLoggingAgent         *)
(*                                                                         *)
(* Numbers that are floats in the source are exact rationals <<num, den>>  *)
(* here (den > 0).  md5 identifiers are the tuple of the hashed fields.    *)
(* Time is in seconds; the Redis server is a map key -> [val, exp].        *)
(***************************************************************************)
EXTENDS Integers, Sequences, FiniteSets, TLC

(***************************************************************************)
(* Bounds of the model                                                     *)
(***************************************************************************)
MaxDocs == 2

MaxVals == 2

MaxTicks == 3

MaxAudit == 7

MaxStored == 2

MaxRated == 4

MaxSummaries == 2

MaxChat == 3

(***************************************************************************)
(* Rational arithmetic for the float fields                                *)
(***************************************************************************)
RatAdd(a, b) == <<a[1] * b[2] + b[1] * a[2], a[2] * b[2]>>

RatMul(a, b) == <<a[1] * b[1], a[2] * b[2]>>

RatGeq(a, b) == a[1] * b[2] >= b[1] * a[2]

RatEq(a, b) == a[1] * b[2] = b[1] * a[2]

RatZero == <<0, 1>>

(***************************************************************************)
(* Scoring engine: _calculate_scores                                       *)
(***************************************************************************)
DocTypes == {"commercial_registration", "national_id", "bank_statement", "unknown"}

required_types == <<"commercial_registration", "national_id", "bank_statement">>

ValStatuses == {"passed", "failed", "pending"}

\* validation_score values used as inputs: 0.0, 0.5, 1.0
Scores == {<<0, 1>>, <<1, 2>>, <<1, 1>>}

\* md5 hex identifiers: <<first 8 characters, rest>>
ScoreDocIds == {<<"d1", "x">>}

\* document_id[:8]
Trunc8(id) == id[1]

\* a document as _get_customer_documents hands it to the scoring engine
ScoreDocs == [type : DocTypes, compliant : BOOLEAN]

\* a validation as _get_validation_results hands it to the scoring engine
ScoreVals == [document_id : ScoreDocIds, status : ValStatuses, score : Scores]

SeqsUpTo(S, n) == UNION {[1..k -> S] : k \in 0..n}

RECURSIVE SumScores(_)
SumScores(vs) == IF vs = <<>> THEN RatZero ELSE RatAdd(vs[1].score, SumScores(Tail(vs)))

\* sum(1 for doc in documents if doc.get('compliant', False))
CompliantCount(docs) == Cardinality({i \in 1..Len(docs) : docs[i].compliant})

\* sum(validation_scores) / len(validation_scores) if validation_scores else 0
AvgValidationScore(vals) ==
    IF Len(vals) > 0 THEN RatMul(SumScores(vals), <<1, Len(vals)>>) ELSE RatZero

OverallScore(docs, vals) ==
    IF Len(docs) > 0
    THEN RatAdd(RatMul(<<CompliantCount(docs), Len(docs)>>, <<6, 10>>),
                RatMul(AvgValidationScore(vals), <<4, 10>>))
    ELSE RatZero

\* mutation: the thresholds exclude their boundary
StatusOf_Strict(overall) ==
    IF ~RatGeq(<<8, 10>>, overall) THEN "compliant"
    ELSE IF ~RatGeq(<<6, 10>>, overall) THEN "partially_compliant"
    ELSE "non_compliant"

StatusOf(overall) ==
    IF RatGeq(overall, <<8, 10>>) THEN "compliant"
    ELSE IF RatGeq(overall, <<6, 10>>) THEN "partially_compliant"
    ELSE "non_compliant"

RECURSIVE MissingIssues(_, _, _)
MissingIssues(docs, k, tag) ==
    IF k > Len(required_types) THEN <<>>
    ELSE IF \E i \in 1..Len(docs) : docs[i].type = required_types[k]
         THEN MissingIssues(docs, k + 1, tag)
         ELSE <<[kind |-> tag, what |-> required_types[k]]>> \o MissingIssues(docs, k + 1, tag)

\* mutation: only validations in status failed are reported
RECURSIVE ValidationIssues_FailedOnly(_)
ValidationIssues_FailedOnly(vals) ==
    IF vals = <<>> THEN <<>>
    ELSE IF vals[1].status = "failed"
         THEN <<[kind |-> "validation_failed", what |-> Trunc8(vals[1].document_id)]>>
                  \o ValidationIssues_FailedOnly(Tail(vals))
         ELSE ValidationIssues_FailedOnly(Tail(vals))

RECURSIVE ValidationIssues(_)
ValidationIssues(vals) ==
    IF vals = <<>> THEN <<>>
    ELSE IF vals[1].status # "passed"
         THEN <<[kind |-> "validation_failed", what |-> Trunc8(vals[1].document_id)]>>
                  \o ValidationIssues(Tail(vals))
         ELSE ValidationIssues(Tail(vals))

calculate_scores(docs, vals) ==
    [overall_score       |-> OverallScore(docs, vals),
     compliant_count     |-> CompliantCount(docs),
     status              |-> StatusOf(OverallScore(docs, vals)),
     all_issues          |-> MissingIssues(docs, 1, "missing") \o ValidationIssues(vals),
     all_recommendations |-> MissingIssues(docs, 1, "provide")]

(***************************************************************************)
(* Environment shared by the agents: clock, Redis server, database, bus    *)
(***************************************************************************)
VARIABLES
    now,          \* datetime.now(), in seconds
    nTicks,       \* number of clock steps taken (bounded)
    redis,        \* the Redis server: live key -> [val, exp]
    redisUp,      \* the Redis server answers (otherwise every command raises)
    dbUp,         \* the database answers (otherwise query / commit raise)
    busUp,        \* the event bus accepts messages (otherwise a publish fails)
    ollama,       \* the language-model service: "up" | "down" (refuses) | "hung" (accepts, no answer)
    asked,        \* per operation, the position of its inline OllamaForAgno.invoke call
    mock_events   \* KafkaHandler.mock_events, the published messages in order

envVars == <<now, nTicks, redis, redisUp, dbUp, busUp, ollama, asked, mock_events>>

VARIABLES
    scoreDocs,    \* the documents handed to _calculate_scores
    scoreVals,    \* the validations handed to _calculate_scores
    scoreOut,     \* what _calculate_scores returned
    ruleIn,       \* the document handed to _perform_validation
    ruleOut       \* what _perform_validation returned

scoreVars == <<scoreDocs, scoreVals, scoreOut, ruleIn, ruleOut>>

VARIABLES
    auditRedis,   \* SAMAAuditLoggingAgent.redis_client is not None
    auditDb,      \* outcome of __init__: "session" | "none" | "memory"
    audit_logs,   \* rows of table audit_logs, in insertion order
    memory_logs,  \* SAMAAuditLoggingAgent.memory_logs (exists only when auditDb = "memory")
    auditRet,     \* the last log_event call: its entry, locals and return value
    nAudit,       \* number of log_event calls made (bounded)
    win,          \* observer: per counter key, the fixed window opened by its first increment
    auditReport,  \* what the last get_audit_report call returned
    auditMetrics, \* what the last get_compliance_metrics call returned
    writers       \* concurrent log_event calls: position, locals and return value of each

auditVars == <<auditRedis, auditDb, audit_logs, memory_logs, auditRet, nAudit, win,
               auditReport, auditMetrics, writers>>

VARIABLES
    sumRedis,             \* SAMAComplianceSummaryAgent.redis_client is not None
    sumDb,                \* per agent instance, outcome of __init__: "session" | "none" | "memory"
    documents,            \* rows of table documents
    kyc_validations,      \* rows of table kyc_validations
    chroma,               \* ChromaDB collection sama_documents: ids with their metadata
    compliance_summaries, \* rows of table compliance_summaries
    memory_storage,       \* per agent instance, memory_storage: summary_id -> summary
    pc,                   \* per agent instance, the position inside generate_summary
    call,                 \* per agent instance, the locals of the running generate_summary call
    sumRet,               \* per agent instance, what the last generate_summary call returned
    nSum                  \* number of generate_summary calls made (bounded)

sumVars == <<sumRedis, sumDb, documents, kyc_validations, chroma, compliance_summaries,
             memory_storage, pc, call, sumRet, nSum>>

VARIABLES
    docRedis,     \* SAMADocumentIngestionAgent.redis_client is not None
    docDb,        \* ingestion agent, outcome of __init__: "session" | "none" | "memory"
    docSession,   \* ingestion agent, state of its SQLAlchemy session: "active" | "inactive"
    docMemory,    \* ingestion agent, memory_storage: document id -> result
    docRet,       \* what the last process_document call returned
    nIngest,      \* number of process_document calls made (bounded)
    kycRedis,     \* SAMAKYCValidationAgent.redis_client is not None
    kycDb,        \* validation agent, outcome of __init__: "session" | "none" | "memory"
    kycMemory,    \* validation agent, memory_storage: validation id -> result
    kycRet,       \* what the last validate_kyc call returned
    nValidate,    \* number of validate_kyc calls made (bounded)
    durable       \* observer: the attempts made on the database since it last failed

docVars == <<docRedis, docDb, docSession, docMemory, docRet, nIngest>>

kycVars == <<kycRedis, kycDb, kycMemory, kycRet, nValidate>>

pipeVars == <<docVars, kycVars, durable>>

VARIABLES
    chatRedis,     \* SAMAComplianceChatAgent.redis_client is not None
    conversations, \* SAMAComplianceChatAgent.conversations: session -> list object
    lists,         \* the list objects of the chat agent's process, by identity
    chatters,      \* the chat calls under way: position and locals of each caller
    chatRet,       \* the last chat or get_session_summary call: what it read and returned
    nChat          \* number of chat calls made (bounded)

chatVars == <<chatRedis, conversations, lists, chatters, chatRet, nChat>>

vars == <<envVars, scoreVars, auditVars, sumVars, pipeVars, chatVars>>

(***************************************************************************)
(* Redis commands.  A key is a tuple; exp is the absolute expiry time or   *)
(* NoExpiry.  Tick removes the keys whose expiry time has been reached, so *)
(* every key in DOMAIN redis is live.                                      *)
(***************************************************************************)
NoExpiry == -1

RedisHas(r, key) == key \in DOMAIN r

RedisGet(r, key) == IF key \in DOMAIN r THEN r[key].val ELSE 0

RedisIncr(r, key) ==
    IF key \in DOMAIN r
    THEN [r EXCEPT ![key].val = @ + 1]
    ELSE [k \in DOMAIN r \cup {key} |->
             IF k = key THEN [val |-> 1, exp |-> NoExpiry] ELSE r[k]]

RedisExpire(r, key, ttl, t) ==
    IF key \in DOMAIN r THEN [r EXCEPT ![key].exp = t + ttl] ELSE r

RedisSetex(r, key, ttl, v, t) ==
    [k \in DOMAIN r \cup {key} |->
        IF k = key THEN [val |-> v, exp |-> t + ttl] ELSE r[k]]

RedisPurge(r, t) ==
    [k \in {x \in DOMAIN r : r[x].exp = NoExpiry \/ t < r[x].exp} |-> r[k]]

EmptyRedis == [k \in {} |-> 0]

(***************************************************************************)
(* Event bus: shared.kafka_handler.KafkaHandler.  A publish that fails is   *)
(* logged by the handler and dropped: nothing is raised to the agent.      *)
(***************************************************************************)
\* mutation: a publish that fails takes the buffered messages with it
send_event_Losing(buf, topic, key, value) ==
    IF busUp
    THEN Append(buf, [topic |-> topic, key |-> key, value |-> value])
    ELSE <<>>

send_event(buf, topic, key, value) ==
    IF busUp
    THEN Append(buf, [topic |-> topic, key |-> key, value |-> value])
    ELSE buf

(***************************************************************************)
(* Scoring engine as a state machine: inputs drawn in Init                 *)
(***************************************************************************)
NoScore == [status |-> "none"]

NoRuleInput == [id |-> "none"]

NoRet == [logged |-> FALSE]

NoReport == [total_events |-> -1]

\* the callers that log concurrently
AuditWriters == {"a1", "a2", "a3", "a4", "a5", "a6"}

NoWriters == [a \in AuditWriters |-> [pc |-> "idle", failures |-> 0, anomalies |-> <<>>]]

NoMetrics == [total_events_today |-> -1]

\* the threads that call chat
ChatCallers == {"u1", "u2"}

NoChat == [kind |-> "none"]

NoChatter == [pc |-> "idle"]

ChatIdle ==
    /\ chatRedis = TRUE
    /\ conversations = EmptyRedis
    /\ lists = <<>>
    /\ chatters = [c \in ChatCallers |-> NoChatter]
    /\ chatRet = NoChat
    /\ nChat = 0

\* the operations that call the language model inline (self.llm.run)
InlineCallers == {"ingest", "validate", "summarize", "chat"}

NotAsked == [op \in InlineCallers |-> "idle"]

EnvIdle ==
    /\ now = 0
    /\ nTicks = 0
    /\ redis = EmptyRedis
    /\ redisUp = TRUE
    /\ dbUp = TRUE
    /\ busUp = TRUE
    /\ ollama = "up"
    /\ asked = NotAsked
    /\ mock_events = <<>>

ScoreIdle ==
    /\ scoreDocs = <<>>
    /\ scoreVals = <<>>
    /\ scoreOut = NoScore
    /\ ruleIn = NoRuleInput
    /\ ruleOut = NoScore

AuditIdle ==
    /\ auditRedis = TRUE
    /\ auditDb = "none"
    /\ audit_logs = <<>>
    /\ memory_logs = <<>>
    /\ auditRet = NoRet
    /\ nAudit = 0
    /\ win = EmptyRedis
    /\ auditReport = NoReport
    /\ auditMetrics = NoMetrics
    /\ writers = NoWriters

Workers == {"w1", "w2"}

NoRow == [id |-> "none"]

NoCall == [outcome |-> "none"]

NoSummary == [summary_id |-> "none"]

SumIdle ==
    /\ sumRedis = TRUE
    /\ sumDb = [w \in Workers |-> "session"]
    /\ documents = <<>>
    /\ kyc_validations = <<>>
    /\ chroma = <<>>
    /\ compliance_summaries = <<>>
    /\ memory_storage = [w \in Workers |-> EmptyRedis]
    /\ pc = [w \in Workers |-> "idle"]
    /\ call = [w \in Workers |-> NoCall]
    /\ sumRet = [w \in Workers |-> NoSummary]
    /\ nSum = 0

NoDocument == [path |-> "none", customer_id |-> "none", value |-> [status |-> "none"]]

NoValidation == [document_id |-> "none", customer_id |-> "none", value |-> [status |-> "none"]]

NoAttempt == [failed_at |-> -1, early |-> FALSE]

PipeIdle ==
    /\ docRedis = TRUE
    /\ docDb = "session"
    /\ docSession = "active"
    /\ docMemory = EmptyRedis
    /\ docRet = NoDocument
    /\ nIngest = 0
    /\ kycRedis = TRUE
    /\ kycDb = "session"
    /\ kycMemory = EmptyRedis
    /\ kycRet = NoValidation
    /\ nValidate = 0
    /\ durable = NoAttempt

InitScore ==
    /\ ChatIdle
    /\ scoreDocs \in SeqsUpTo(ScoreDocs, MaxDocs)
    /\ scoreVals \in SeqsUpTo(ScoreVals, MaxVals)
    /\ scoreOut = NoScore
    /\ ruleIn = NoRuleInput
    /\ ruleOut = NoScore
    /\ EnvIdle
    /\ AuditIdle
    /\ SumIdle
    /\ PipeIdle

\* scores = self._calculate_scores(documents, validations)
CalculateScores ==
    /\ scoreOut = NoScore
    /\ scoreOut' = calculate_scores(scoreDocs, scoreVals)
    /\ UNCHANGED <<scoreDocs, scoreVals, ruleIn, ruleOut, envVars, auditVars, sumVars, pipeVars,
                   chatVars>>

NextScore == CalculateScores

SpecScore == InitScore /\ [][NextScore]_vars

(***************************************************************************)
(* Clock                                                                   *)
(***************************************************************************)
\* time passes by d seconds; the Redis server drops the keys that expired
Tick(d) ==
    /\ nTicks < MaxTicks
    /\ now' = now + d
    /\ nTicks' = nTicks + 1
    /\ redis' = RedisPurge(redis, now + d)
    /\ UNCHANGED <<redisUp, dbUp, busUp, ollama, asked, mock_events, scoreVars, pipeVars, auditVars, sumVars,
                   chatVars>>

(***************************************************************************)
(* Audit logging agent: SAMAAuditLoggingAgent                              *)
(***************************************************************************)
Customers == {"c1", "c2"}

\* (event type, originating agent) of the events the components publish
AuditSources ==
    {[event_type |-> "document-processed", agent_name |-> "DocumentIngestionAgent"],
     [event_type |-> "kyc-validation-completed", agent_name |-> "KYCValidationAgent"]}

FailureTTL == 3600

FailureThreshold == 5

RateTTL == 60

RateThreshold == 100

DailyTTL == 604800

AlertTTL == 3600

SecondsPerDay == 86400

\* datetime.now().strftime('%Y%m%d')
Today(t) == t \div SecondsPerDay

\* log_entry of log_event
LogEntry(src, cust, status, t) ==
    [event_type  |-> src.event_type,
     agent_name  |-> src.agent_name,
     customer_id |-> cust,
     status      |-> status,
     occurred_at |-> t]

\* mutation: the table keeps the latest row only
StoreAuditDb_Latest(rows, entry) ==
    IF auditDb = "session" /\ dbUp THEN <<entry>> ELSE rows

\* _store_audit_log: the rows of audit_logs afterwards
StoreAuditDb(rows, entry) ==
    IF auditDb = "session" /\ dbUp THEN Append(rows, entry) ELSE rows

\* _store_audit_log: memory_logs afterwards (appended only where the attribute exists)
StoreAuditMemory(mem, entry) ==
    IF auditDb = "session"
    THEN mem  \* commit succeeded, or raised and hasattr(self, 'memory_logs') is False
    ELSE IF auditDb = "memory" THEN Append(mem, entry) ELSE mem

\* mutation: a server that does not answer is not noticed
AuditCache_ClientOnly == auditRedis

\* the Redis client is there and the server answers
AuditCache == auditRedis /\ redisUp

\* _update_metrics
UpdateMetrics(r, event_type, t) ==
    IF AuditCache
    THEN LET r1 == RedisIncr(r, <<"audit:counter", event_type>>)
             r2 == RedisIncr(r1, <<"audit:daily", Today(t), event_type>>)
         IN RedisExpire(r2, <<"audit:daily", Today(t), event_type>>, DailyTTL, t)
    ELSE r

\* mutation: the anomaly fires from the fifth failure on
RepeatedFailure_Geq(failures) == failures >= FailureThreshold

\* if failures > 5
RepeatedFailure(failures) == failures > FailureThreshold

\* if rate > 100
HighRate(rate) == rate > RateThreshold

FailureKey(cust) == <<"audit:failures", cust>>

RateKey(event_type) == <<"audit:rate", event_type>>

\* _detect_anomalies, first block: the failure counter of the customer
DetectFailures(r, cust, status, t) ==
    IF status = "failure" /\ AuditCache
    THEN LET r1 == RedisIncr(r, FailureKey(cust))
         IN [redis    |-> RedisExpire(r1, FailureKey(cust), FailureTTL, t),
             failures |-> r1[FailureKey(cust)].val]
    ELSE [redis |-> r, failures |-> 0]

\* _detect_anomalies, second block: the rate counter of the event type
DetectRate(r, event_type, t) ==
    IF AuditCache
    THEN LET r1 == RedisIncr(r, RateKey(event_type))
         IN [redis |-> RedisExpire(r1, RateKey(event_type), RateTTL, t),
             rate  |-> r1[RateKey(event_type)].val]
    ELSE [redis |-> r, rate |-> 0]

\* the list anomalies returned by _detect_anomalies
Anomalies(failures, rate, cust, event_type) ==
    (IF RepeatedFailure(failures)
        THEN <<[kind |-> "repeated_failure", about |-> cust]>> ELSE <<>>)
    \o (IF HighRate(rate)
        THEN <<[kind |-> "event_rate", about |-> event_type]>> ELSE <<>>)

\* _handle_anomalies: the messages published
RECURSIVE HandleBus(_, _, _)
HandleBus(buf, anoms, t) ==
    IF anoms = <<>> THEN buf
    ELSE HandleBus(send_event(buf, "audit-anomaly", "anomaly",
                              [anomaly |-> anoms[1], detected_at |-> t]),
                   Tail(anoms), t)

\* _handle_anomalies: the alert keys written
RECURSIVE HandleAlerts(_, _, _)
HandleAlerts(r, anoms, t) ==
    IF anoms = <<>> THEN r
    ELSE HandleAlerts(IF AuditCache
                      THEN RedisSetex(r, <<"audit:alert", t>>, AlertTTL, anoms[1], t)
                      ELSE r,
                      Tail(anoms), t)

\* log_event(event_type, event_data)
LogEvent(src, cust, status) ==
    LET entry == LogEntry(src, cust, status, now)
        r1    == UpdateMetrics(redis, src.event_type, now)
        df    == DetectFailures(r1, cust, status, now)
        dr    == DetectRate(df.redis, src.event_type, now)
        anoms == Anomalies(df.failures, dr.rate, cust, src.event_type)
    IN /\ audit_logs' = StoreAuditDb(audit_logs, entry)
       /\ memory_logs' = StoreAuditMemory(memory_logs, entry)
       /\ redis' = HandleAlerts(dr.redis, anoms, now)
       /\ mock_events' = HandleBus(mock_events, anoms, now)
       /\ auditRet' = [logged    |-> TRUE,
                       entry     |-> entry,
                       failures  |-> df.failures,
                       rate      |-> dr.rate,
                       anomalies |-> anoms]
       /\ nAudit' = nAudit + 1
       /\ UNCHANGED <<now, nTicks, redisUp, dbUp, busUp, ollama, asked, auditRedis, auditDb, auditReport,
                      auditMetrics, writers, scoreVars, sumVars, pipeVars, chatVars>>

\* the database becomes unreachable / reachable again
DbFail ==
    /\ dbUp
    /\ dbUp' = FALSE
    /\ UNCHANGED <<now, nTicks, redis, redisUp, busUp, ollama, asked, mock_events, scoreVars,
                   pipeVars, auditVars, sumVars, chatVars>>

DbRecover ==
    /\ ~dbUp
    /\ dbUp' = TRUE
    /\ UNCHANGED <<now, nTicks, redis, redisUp, busUp, ollama, asked, mock_events, scoreVars,
                   pipeVars, auditVars, sumVars, chatVars>>

(***************************************************************************)
(* Observer of the counter windows: for a counter key, the window opened   *)
(* by the first increment and lasting ttl seconds, the number of           *)
(* increments in it, and whether the key was absent when it opened.        *)
(***************************************************************************)
Observe(w, key, ttl) ==
    IF key \in DOMAIN w /\ now < w[key].first + ttl
    THEN [w EXCEPT ![key].n = @ + 1]
    ELSE [k \in DOMAIN w \cup {key} |->
             IF k = key THEN [n |-> 1, first |-> now, fresh |-> ~RedisHas(redis, key)]
             ELSE w[k]]

ObserveLog(src, cust, status) ==
    win' = Observe(IF status = "failure" THEN Observe(win, FailureKey(cust), FailureTTL)
                   ELSE win,
                   RateKey(src.event_type), RateTTL)

(***************************************************************************)
(* Anomaly detector: the cache answers, nothing is stored durably          *)
(* (get_database_session returned None), MaxAudit events are logged.       *)
(***************************************************************************)
\* 25 minutes: the third step lies more than FailureTTL after the first
AnomalyDeltas == {1500}

AnomalySources == {[event_type |-> "kyc-validation-completed", agent_name |-> "KYCValidationAgent"]}

InitAnomaly ==
    /\ ChatIdle
    /\ EnvIdle
    /\ ScoreIdle
    /\ AuditIdle
    /\ SumIdle
    /\ PipeIdle

LogAnomalyEvent ==
    \E src \in AnomalySources, cust \in Customers, status \in {"success", "failure"} :
        /\ nAudit < MaxAudit
        /\ LogEvent(src, cust, status)
        /\ ObserveLog(src, cust, status)

TickAnomaly ==
    \E d \in AnomalyDeltas : Tick(d)

NextAnomaly == LogAnomalyEvent \/ TickAnomaly

SpecAnomaly == InitAnomaly /\ [][NextAnomaly]_vars

(***************************************************************************)
(* Event-rate counter: two event types, the cache answers                  *)
(***************************************************************************)
\* 25 seconds: the third step lies more than RateTTL after the first
RateDeltas == {25}

LogRateEvent ==
    \E src \in AuditSources, status \in {"success", "failure"} :
        /\ nAudit < MaxRated
        /\ LogEvent(src, "c1", status)
        /\ ObserveLog(src, "c1", status)

TickRate ==
    \E d \in RateDeltas : Tick(d)

NextRate == LogRateEvent \/ TickRate

SpecRate == InitAnomaly /\ [][NextRate]_vars

(***************************************************************************)
(* Audit store: every start-up outcome of the agent, the database failing  *)
(* and recovering, MaxStored events logged.                                *)
(***************************************************************************)
InitAudit ==
    /\ ChatIdle
    /\ EnvIdle
    /\ ScoreIdle
    /\ SumIdle
    /\ PipeIdle
    /\ auditRedis \in BOOLEAN
    /\ auditDb \in {"session", "none", "memory"}
    /\ audit_logs = <<>>
    /\ memory_logs = <<>>
    /\ auditRet = NoRet
    /\ nAudit = 0
    /\ win = EmptyRedis
    /\ auditReport = NoReport
    /\ auditMetrics = NoMetrics
    /\ writers = NoWriters

\* the events logged: (source, status) as in test_audit_agent
StoredEvents ==
    {[src |-> [event_type |-> "document-processed", agent_name |-> "DocumentIngestionAgent"],
      status |-> "success"],
     [src |-> [event_type |-> "kyc-validation-completed", agent_name |-> "KYCValidationAgent"],
      status |-> "failure"],
     [src |-> [event_type |-> "kyc-validation-completed", agent_name |-> "KYCValidationAgent"],
      status |-> "warning"]}

LogStoredEvent ==
    \E ev \in StoredEvents, cust \in Customers :
        /\ nAudit < MaxStored
        /\ LogEvent(ev.src, cust, ev.status)
        /\ UNCHANGED win

TickAudit ==
    \E d \in AnomalyDeltas : Tick(d)

NextAudit == LogStoredEvent \/ TickAudit \/ DbFail \/ DbRecover

SpecAudit == InitAudit /\ [][NextAudit]_vars

(***************************************************************************)
(* Audit agent, read side: get_audit_report, get_compliance_metrics,       *)
(* monitor_events                                                          *)
(***************************************************************************)
\* customer_id=None
NoFilter == ""

\* start_date=None, end_date=None
DefaultRange == [start |-> -1, end |-> -1]

\* end_date = datetime.now(); start_date = end_date - timedelta(days=1)
ReportPeriod(range, t) ==
    LET end == IF range.end = -1 THEN t ELSE range.end
    IN [start |-> IF range.start = -1 THEN end - SecondsPerDay ELSE range.start,
        end   |-> end]

\* mutation: the end of the range is excluded
InPeriod_Open(entry, cust, period) ==
    /\ period.start <= entry.occurred_at
    /\ entry.occurred_at < period.end
    /\ (cust = NoFilter \/ entry.customer_id = cust)

InPeriod(entry, cust, period) ==
    /\ period.start <= entry.occurred_at
    /\ entry.occurred_at <= period.end
    /\ (cust = NoFilter \/ entry.customer_id = cust)

\* _get_audit_logs: the rows of audit_logs in the range, newest first, else memory_logs
GetAuditLogs(cust, period) ==
    LET rows   == IF auditDb = "session" /\ dbUp
                  THEN SelectSeq(audit_logs, LAMBDA e : InPeriod(e, cust, period))
                  ELSE <<>>
        fromDb == [i \in 1..Len(rows) |-> rows[Len(rows) + 1 - i]]
    IN IF fromDb # <<>> THEN fromDb
       ELSE IF auditDb = "memory"
            THEN SelectSeq(memory_logs, LAMBDA e : InPeriod(e, cust, period))
            ELSE <<>>

\* analysis["event_counts"], analysis["agent_counts"]: a count per value that occurs
CountBy(logs, field) ==
    [v \in {logs[i][field] : i \in 1..Len(logs)} |->
        Cardinality({i \in 1..Len(logs) : logs[i][field] = v})]

\* analysis["status_counts"]: only the three known statuses are counted
StatusCounts(logs) ==
    [s \in {"success", "failure", "warning"} |->
        Cardinality({i \in 1..Len(logs) : logs[i].status = s})]

\* get_audit_report(customer_id, start_date, end_date)
GetAuditReport(cust, range) ==
    LET period == ReportPeriod(range, now)
        logs   == GetAuditLogs(cust, period)
    IN /\ auditReport = NoReport
       /\ auditReport' = [customer_id     |-> cust,
                          period          |-> period,
                          total_events    |-> Len(logs),
                          event_breakdown |-> CountBy(logs, "event_type"),
                          agent_activity  |-> CountBy(logs, "agent_name"),
                          status_summary  |-> StatusCounts(logs),
                          generated_at    |-> now]
       /\ UNCHANGED <<envVars, scoreVars, sumVars, pipeVars, auditRedis, auditDb, audit_logs,
                      memory_logs, auditRet, nAudit, win, auditMetrics, writers, chatVars>>

monitored_topics ==
    {"document-processed", "kyc-validation-requested", "kyc-validation-completed",
     "compliance-summary-requested", "compliance-summary-generated", "chat-interaction",
     "audit-log"}

RECURSIVE SumOver(_, _)
SumOver(f, S) ==
    IF S = {} THEN 0
    ELSE LET x == CHOOSE y \in S : TRUE IN f[x] + SumOver(f, S \ {x})

\* success_count / total, 0.0 when total is 0
SuccessRate(success_count, failure_count) ==
    IF success_count + failure_count > 0
    THEN <<success_count, success_count + failure_count>>
    ELSE RatZero

\* "critical" below 0.5, "warning" below 0.8
SystemHealth(rate) ==
    IF ~RatGeq(rate, <<5, 10>>) THEN "critical"
    ELSE IF ~RatGeq(rate, <<8, 10>>) THEN "warning"
    ELSE "healthy"

\* keys("audit:failure:*"): no key the agent writes has this prefix
RecentFailureKeys(r) == {k \in DOMAIN r : k[1] = "audit:failure"}

\* get_compliance_metrics()
GetComplianceMetrics ==
    LET today   == Today(now)
        daily   == [t \in monitored_topics |-> RedisGet(redis, <<"audit:daily", today, t>>)]
        success == RedisGet(redis, <<"audit:daily", today, "success">>)
        failure == RedisGet(redis, <<"audit:daily", today, "failure">>)
    IN /\ auditMetrics = NoMetrics
       /\ auditMetrics' =
            IF auditRedis /\ redisUp
            THEN [total_events_today |-> SumOver(daily, monitored_topics),
                  success_rate       |-> SuccessRate(success, failure),
                  recent_failures    |-> Cardinality(RecentFailureKeys(redis)),
                  system_health      |-> SystemHealth(SuccessRate(success, failure))]
            ELSE [total_events_today |-> 0,
                  success_rate       |-> RatZero,
                  recent_failures    |-> 0,
                  system_health      |-> "healthy"]
       /\ UNCHANGED <<envVars, scoreVars, sumVars, pipeVars, auditRedis, auditDb, audit_logs,
                      memory_logs, auditRet, nAudit, win, auditReport, writers, chatVars>>

\* monitor_events(duration): polls the bus buffer once a second until duration is over
MonitorEvents(duration) ==
    /\ nTicks < MaxTicks
    /\ now' = now + duration
    /\ nTicks' = nTicks + 1
    /\ redis' = RedisPurge(redis, now + duration)
    /\ UNCHANGED <<redisUp, dbUp, busUp, ollama, asked, mock_events, scoreVars, auditVars, sumVars, pipeVars,
                   chatVars>>

\* the Redis server stops answering / answers again
RedisFail ==
    /\ redisUp
    /\ redisUp' = FALSE
    /\ UNCHANGED <<now, nTicks, redis, dbUp, busUp, ollama, asked, mock_events, scoreVars, auditVars, sumVars,
                   pipeVars, chatVars>>

RedisRecover ==
    /\ ~redisUp
    /\ redisUp' = TRUE
    /\ UNCHANGED <<now, nTicks, redis, dbUp, busUp, ollama, asked, mock_events, scoreVars, auditVars, sumVars,
                   pipeVars, chatVars>>

(***************************************************************************)
(* Audit with a cache that comes and goes: the client is missing from      *)
(* start-up on, or the server stops answering between two log_event calls. *)
(***************************************************************************)
CacheSource == [event_type |-> "kyc-validation-completed", agent_name |-> "KYCValidationAgent"]

InitCache ==
    /\ ChatIdle
    /\ now = 0
    /\ nTicks = 0
    /\ redis = EmptyRedis
    /\ auditRedis \in BOOLEAN
    /\ redisUp = auditRedis
    /\ dbUp = TRUE
    /\ busUp = TRUE
    /\ ollama = "up"
    /\ asked = NotAsked
    /\ mock_events = <<>>
    /\ auditDb \in {"session", "none", "memory"}
    /\ audit_logs = <<>>
    /\ memory_logs = <<>>
    /\ auditRet = NoRet
    /\ nAudit = 0
    /\ win = EmptyRedis
    /\ auditReport = NoReport
    /\ auditMetrics = NoMetrics
    /\ writers = NoWriters
    /\ ScoreIdle
    /\ SumIdle
    /\ PipeIdle

LogCacheEvent ==
    \E status \in {"success", "failure"} :
        /\ nAudit < MaxAudit
        /\ LogEvent(CacheSource, "c1", status)
        /\ UNCHANGED win

NextCache == LogCacheEvent \/ RedisFail \/ RedisRecover

SpecCache == InitCache /\ [][NextCache]_vars

(***************************************************************************)
(* Audit store with its readers: events are logged, reports and metrics    *)
(* are read, the database fails and recovers; time passes while the bus is *)
(* monitored.                                                              *)
(***************************************************************************)
ReportFilters == {NoFilter, "c1"}

\* the default range (last 24 hours) and the first half hour
ReportRanges == {DefaultRange, [start |-> 0, end |-> 1800]}

\* monitor_events(duration=60)
MonitorDurations == {60}

ReadAuditReport ==
    \E cust \in ReportFilters, range \in ReportRanges : GetAuditReport(cust, range)

MonitorBus ==
    \E d \in MonitorDurations : MonitorEvents(d)

LogOpsEvent ==
    \E ev \in StoredEvents :
        /\ nAudit < MaxStored
        /\ LogEvent(ev.src, "c1", ev.status)
        /\ UNCHANGED win

NextAuditOps ==
    \/ LogOpsEvent
    \/ ReadAuditReport
    \/ GetComplianceMetrics
    \/ MonitorBus
    \/ DbFail
    \/ DbRecover

SpecAuditOps == InitAudit /\ [][NextAuditOps]_vars

(***************************************************************************)
(* Compliance summary agent: SAMAComplianceSummaryAgent                    *)
(* generate_summary runs in four steps per agent instance (pc):            *)
(*   idle -> store (result built) -> commit (existing row read) -> finish  *)
(* json.dumps / json.loads of a result (strings, numbers, lists) give the  *)
(* result back, so cached values and JSON columns hold the value itself.   *)
(***************************************************************************)
SummaryTTL == 3600

SummaryKey(cust) == <<"summary", cust>>

\* rows as the ingestion and validation agents write them, and the ChromaDB entry
SeedDocument ==
    [id |-> <<"d1", "x">>, customer_id |-> "c1", document_type |-> "null",
     sama_compliant |-> FALSE]

SeedChroma ==
    [id |-> <<"d1", "x">>, customer_id |-> "c1", document_type |-> "national_id"]

SeedValidation ==
    [id |-> <<"v1", "x">>, document_id |-> <<"d1", "x">>, customer_id |-> "c1",
     validation_status |-> "passed", validation_score |-> <<1, 1>>]

\* what the stores hold when the summary agent starts
SeedStates ==
    {[documents |-> <<>>, kyc_validations |-> <<>>, chroma |-> <<>>],
     [documents |-> <<>>, kyc_validations |-> <<>>, chroma |-> <<SeedChroma>>],
     [documents |-> <<SeedDocument>>, kyc_validations |-> <<SeedValidation>>,
      chroma |-> <<SeedChroma>>]}

OfCustomer(rows, cust) == SelectSeq(rows, LAMBDA r : r.customer_id = cust)

DocOfRow(r) == [id |-> r.id, type |-> r.document_type, compliant |-> r.sama_compliant]

\* metadata.get('sama_compliant', 'false') == 'true'
DocOfChroma(m) ==
    [id |-> m.id, type |-> m.document_type,
     compliant |-> IF "sama_compliant" \in DOMAIN m THEN m.sama_compliant = "true" ELSE FALSE]

ValOfRow(r) ==
    [id |-> r.id, document_id |-> r.document_id, status |-> r.validation_status,
     score |-> r.validation_score]

\* the agent instance holds a session and the database answers
SumQueryOk(w) == sumDb[w] = "session" /\ dbUp

\* _get_customer_documents
GetCustomerDocuments(w, cust) ==
    LET rows   == IF SumQueryOk(w) THEN OfCustomer(documents, cust) ELSE <<>>
        fromDb == [i \in 1..Len(rows) |-> DocOfRow(rows[i])]
        metas  == OfCustomer(chroma, cust)
    IN IF fromDb # <<>> THEN fromDb
       ELSE [i \in 1..Len(metas) |-> DocOfChroma(metas[i])]

\* _get_validation_results
GetValidationResults(w, cust) ==
    LET rows == IF SumQueryOk(w) THEN OfCustomer(kyc_validations, cust) ELSE <<>>
    IN [i \in 1..Len(rows) |-> ValOfRow(rows[i])]

\* hashlib.md5(f"{customer_id}_{datetime.now()}")
SummaryId(cust, t) == <<cust, t>>

\* result of generate_summary (the narrative text is not modelled)
BuildResult(w, cust, t) ==
    LET docs   == GetCustomerDocuments(w, cust)
        vals   == GetValidationResults(w, cust)
        scores == calculate_scores(docs, vals)
    IN [summary_id               |-> SummaryId(cust, t),
        customer_id              |-> cust,
        total_documents          |-> Len(docs),
        validated_documents      |-> Len(vals),
        compliant_documents      |-> scores.compliant_count,
        overall_compliance_score |-> scores.overall_score,
        compliance_status        |-> scores.status,
        issues                   |-> scores.all_issues,
        recommendations          |-> scores.all_recommendations,
        generated_at             |-> t]

\* query(ComplianceSummary).filter_by(customer_id=...).first()
ExistingSummary(rows, cust) ==
    IF OfCustomer(rows, cust) = <<>> THEN NoRow ELSE OfCustomer(rows, cust)[1]

\* new_summary = ComplianceSummary(...)
NewSummaryRow(summary, t) ==
    [id                       |-> summary.summary_id,
     customer_id              |-> summary.customer_id,
     total_documents          |-> summary.total_documents,
     validated_documents      |-> 0,
     compliant_documents      |-> summary.compliant_documents,
     overall_compliance_score |-> summary.overall_compliance_score,
     compliance_status        |-> summary.compliance_status,
     issues_summary           |-> summary.issues,
     recommendations_summary  |-> summary.recommendations,
     generated_at             |-> t,
     updated_at               |-> t]

\* existing.total_documents = ... ; existing.updated_at = datetime.now()
UpdatedSummaryRow(row, summary, t) ==
    [row EXCEPT !.total_documents          = summary.total_documents,
                !.compliant_documents      = summary.compliant_documents,
                !.overall_compliance_score = summary.overall_compliance_score,
                !.compliance_status        = summary.compliance_status,
                !.issues_summary           = summary.issues,
                !.recommendations_summary  = summary.recommendations,
                !.updated_at               = t]

\* the INSERT violates the primary key or the unique index on customer_id
InsertConflict(rows, row) ==
    \E i \in 1..Len(rows) : rows[i].id = row.id \/ rows[i].customer_id = row.customer_id

\* mutation: _get_from_cache without its try/except, a server that does not
\* answer ends the call before anything is computed
BeginSummary_CacheRaises(w, cust) ==
    /\ pc[w] = "idle"
    /\ nSum < MaxSummaries
    /\ nSum' = nSum + 1
    /\ IF sumRedis /\ ~redisUp
       THEN /\ call' = [call EXCEPT ![w] = [outcome |-> "raised"]]
            /\ sumRet' = sumRet
            /\ pc' = pc
       ELSE IF sumRedis /\ RedisHas(redis, SummaryKey(cust))
       THEN /\ sumRet' = [sumRet EXCEPT ![w] = RedisGet(redis, SummaryKey(cust))]
            /\ call' = [call EXCEPT ![w] = [outcome |-> "cached"]]
            /\ pc' = pc
       ELSE /\ call' = [call EXCEPT ![w] = [outcome  |-> "pending",
                                            result   |-> BuildResult(w, cust, now),
                                            existing |-> NoRow]]
            /\ pc' = [pc EXCEPT ![w] = "store"]
            /\ sumRet' = sumRet
    /\ UNCHANGED <<envVars, scoreVars, pipeVars, auditVars, sumRedis, sumDb, documents,
                   kyc_validations, chroma, compliance_summaries, memory_storage, chatVars>>

\* mutation: the cache is not consulted, every call computes its result again
BeginSummary_NoCache(w, cust) ==
    /\ pc[w] = "idle"
    /\ nSum < MaxSummaries
    /\ nSum' = nSum + 1
    /\ call' = [call EXCEPT ![w] = [outcome  |-> "pending",
                                    result   |-> BuildResult(w, cust, now),
                                    existing |-> NoRow]]
    /\ pc' = [pc EXCEPT ![w] = "store"]
    /\ sumRet' = sumRet
    /\ UNCHANGED <<envVars, scoreVars, pipeVars, auditVars, sumRedis, sumDb, documents,
                   kyc_validations, chroma, compliance_summaries, memory_storage, chatVars>>

\* generate_summary, lines 117-155: cache check, gather, score, build the result
BeginSummary(w, cust) ==
    /\ pc[w] = "idle"
    /\ nSum < MaxSummaries
    /\ nSum' = nSum + 1
    /\ IF sumRedis /\ redisUp /\ RedisHas(redis, SummaryKey(cust))
       THEN /\ sumRet' = [sumRet EXCEPT ![w] = RedisGet(redis, SummaryKey(cust))]
            /\ call' = [call EXCEPT ![w] = [outcome |-> "cached"]]
            /\ pc' = pc
       ELSE /\ call' = [call EXCEPT ![w] = [outcome  |-> "pending",
                                            result   |-> BuildResult(w, cust, now),
                                            existing |-> NoRow]]
            /\ pc' = [pc EXCEPT ![w] = "store"]
            /\ sumRet' = sumRet
    /\ UNCHANGED <<envVars, scoreVars, pipeVars, auditVars, sumRedis, sumDb, documents,
                   kyc_validations, chroma, compliance_summaries, memory_storage, chatVars>>

\* _store_summary, lines 344-349 and 382-384: look for the customer's row, or
\* without a session write memory_storage where that attribute exists
StoreQuery(w) ==
    /\ pc[w] = "store"
    /\ IF sumDb[w] = "session"
       THEN /\ IF dbUp
               THEN /\ call' = [call EXCEPT ![w].existing =
                                    ExistingSummary(compliance_summaries,
                                                    call[w].result.customer_id)]
                    /\ pc' = [pc EXCEPT ![w] = "commit"]
               ELSE /\ call' = [call EXCEPT ![w].outcome = "failed"]
                    /\ pc' = [pc EXCEPT ![w] = "finish"]
            /\ memory_storage' = memory_storage
       ELSE /\ IF sumDb[w] = "memory"
               THEN /\ memory_storage' =
                          [memory_storage EXCEPT ![w] =
                              [k \in DOMAIN @ \cup {call[w].result.summary_id} |->
                                  IF k = call[w].result.summary_id
                                  THEN call[w].result ELSE @[k]]]
                    /\ call' = [call EXCEPT ![w].outcome = "memory"]
               ELSE /\ memory_storage' = memory_storage
                    /\ call' = [call EXCEPT ![w].outcome = "dropped"]
            /\ pc' = [pc EXCEPT ![w] = "finish"]
    /\ UNCHANGED <<envVars, scoreVars, pipeVars, auditVars, sumRedis, sumDb, documents,
                   kyc_validations, chroma, compliance_summaries, sumRet, nSum, chatVars>>

\* _store_summary, lines 351-381: update the row found or insert a new one, commit;
\* an exception (database down, integrity error) is logged and rolled back
StoreCommit(w) ==
    /\ pc[w] = "commit"
    /\ LET summary == call[w].result
           found   == call[w].existing
       IN IF ~dbUp
          THEN /\ compliance_summaries' = compliance_summaries
               /\ call' = [call EXCEPT ![w].outcome = "failed"]
          ELSE IF found # NoRow
          THEN /\ compliance_summaries' =
                     [i \in 1..Len(compliance_summaries) |->
                         IF compliance_summaries[i].id = found.id
                         THEN UpdatedSummaryRow(compliance_summaries[i], summary, now)
                         ELSE compliance_summaries[i]]
               /\ call' = [call EXCEPT ![w].outcome = "updated"]
          ELSE IF InsertConflict(compliance_summaries, NewSummaryRow(summary, now))
          THEN /\ compliance_summaries' = compliance_summaries
               /\ call' = [call EXCEPT ![w].outcome = "failed"]
          ELSE /\ compliance_summaries' =
                     Append(compliance_summaries, NewSummaryRow(summary, now))
               /\ call' = [call EXCEPT ![w].outcome = "inserted"]
    /\ pc' = [pc EXCEPT ![w] = "finish"]
    /\ UNCHANGED <<envVars, scoreVars, pipeVars, auditVars, sumRedis, sumDb, documents,
                   kyc_validations, chroma, memory_storage, sumRet, nSum, chatVars>>

\* generate_summary, lines 160-168: cache the result, publish, return
FinishSummary(w) ==
    /\ pc[w] = "finish"
    /\ redis' = IF sumRedis /\ redisUp
                THEN RedisSetex(redis, SummaryKey(call[w].result.customer_id),
                                SummaryTTL, call[w].result, now)
                ELSE redis
    /\ mock_events' = send_event(mock_events, "compliance-summary-generated",
                                 call[w].result.customer_id,
                                 [summary_id   |-> call[w].result.summary_id,
                                  customer_id  |-> call[w].result.customer_id,
                                  status       |-> call[w].result.compliance_status,
                                  score        |-> call[w].result.overall_compliance_score,
                                  generated_at |-> call[w].result.generated_at])
    /\ sumRet' = [sumRet EXCEPT ![w] = call[w].result]
    /\ pc' = [pc EXCEPT ![w] = "idle"]
    /\ UNCHANGED <<now, nTicks, redisUp, dbUp, busUp, ollama, asked, scoreVars, pipeVars, auditVars, sumRedis, sumDb,
                   documents, kyc_validations, chroma, compliance_summaries,
                   memory_storage, call, nSum, chatVars>>

AllIdle == \A w \in Workers : pc[w] = "idle"

SumModes == {"session", "none", "memory"}

\* 25 minutes: the third step lies more than SummaryTTL after the first
SummaryDeltas == {1500}

TickSummary ==
    \E d \in SummaryDeltas : Tick(d)

(***************************************************************************)
(* Summaries one call at a time: every start-up outcome of the agent       *)
(* instances, the database failing and recovering.                         *)
(***************************************************************************)
InitSummary ==
    /\ ChatIdle
    /\ EnvIdle
    /\ ScoreIdle
    /\ AuditIdle
    /\ PipeIdle
    /\ sumRedis \in BOOLEAN
    /\ sumDb \in {[w \in Workers |-> m] : m \in SumModes}
    /\ \E seed \in SeedStates :
          /\ documents = seed.documents
          /\ kyc_validations = seed.kyc_validations
          /\ chroma = seed.chroma
    /\ compliance_summaries = <<>>
    /\ memory_storage = [w \in Workers |-> EmptyRedis]
    /\ pc = [w \in Workers |-> "idle"]
    /\ call = [w \in Workers |-> NoCall]
    /\ sumRet = [w \in Workers |-> NoSummary]
    /\ nSum = 0

CallSummary ==
    \E w \in Workers, cust \in Customers : AllIdle /\ BeginSummary(w, cust)

StepSummary ==
    \E w \in Workers : StoreQuery(w) \/ StoreCommit(w) \/ FinishSummary(w)

NextSummary == CallSummary \/ StepSummary \/ TickSummary \/ DbFail \/ DbRecover

SpecSummary == InitSummary /\ [][NextSummary]_vars

(***************************************************************************)
(* Concurrent summaries: two agent instances with a session each on one    *)
(* database that stays up; their steps interleave.                         *)
(***************************************************************************)
InitConcurrent ==
    /\ ChatIdle
    /\ InitSummary
    /\ sumDb = [w \in Workers |-> "session"]

CallConcurrent ==
    \E w \in Workers, cust \in Customers : BeginSummary(w, cust)

NextConcurrent == CallConcurrent \/ StepSummary \/ TickSummary

SpecConcurrent == InitConcurrent /\ [][NextConcurrent]_vars

(***************************************************************************)
(* Document ingestion agent: SAMADocumentIngestionAgent                    *)
(* A text is the set of things the validation rules look for, split into   *)
(* what lies in its first 1000 characters (head) and what lies behind      *)
(* (tail).  The answer of the language model is an input.                  *)
(***************************************************************************)
MaxIngest == 2

MaxValidate == 2

DocTTL == 3600

DocKey(doc_id) == <<"doc", doc_id>>

EmptyText == [head |-> {}, tail |-> {}]

\* a commercial registration with everything the rule check looks for
TextCR == [head |-> {"digits10", "company", "capital", "sar", "date"}, tail |-> {}]

\* text[:1000]
Truncate1000(text) == [head |-> text.head, tail |-> {}]

Features(text) == text.head \cup text.tail

\* the files handed to process_document: path, os.path.exists, _extract_text
Files ==
    {[path |-> "cr.txt", exists |-> TRUE, text |-> TextCR],
     [path |-> "blank.txt", exists |-> TRUE, text |-> EmptyText],
     [path |-> "gone.txt", exists |-> FALSE, text |-> EmptyText]}

\* _default_analysis
DefaultAnalysis == [document_type |-> "unknown", sama_compliant |-> FALSE]

\* what _analyze_with_ollama returns
Analyses ==
    {[document_type |-> "commercial_registration", sama_compliant |-> TRUE],
     DefaultAnalysis}

\* hashlib.md5(f"{file_path}_{customer_id}_{datetime.now()}"); n stands for the
\* sub-second part of the clock, which differs from call to call
DocumentId(path, cust, t, n) == <<<<path, cust, t, n>>, "x">>

\* result of process_document (issue texts and confidence are not modelled)
IngestResult(file, cust, analysis, t, n) ==
    [document_id    |-> DocumentId(file.path, cust, t, n),
     filename       |-> file.path,
     customer_id    |-> cust,
     extracted_text |-> file.text,
     document_type  |-> analysis.document_type,
     sama_compliant |-> analysis.sama_compliant,
     processed_at   |-> t,
     status         |-> "success"]

FileNotFound == [status |-> "error", message |-> "File not found"]

\* _store_result without a session and without memory_storage: AttributeError
IngestRaised == [status |-> "raised"]

\* _store_in_chromadb: the entry added to collection sama_documents
ChromaEntry(result) ==
    [id            |-> result.document_id,
     text          |-> Truncate1000(result.extracted_text),
     filename      |-> result.filename,
     customer_id   |-> result.customer_id,
     document_type |-> result.document_type,
     processed_at  |-> result.processed_at]

\* Document(id, filename, customer_id, extracted_text, processed=True): the
\* columns not given keep NULL or their default
DocumentRow(result) ==
    [id             |-> result.document_id,
     filename       |-> result.filename,
     customer_id    |-> result.customer_id,
     extracted_text |-> result.extracted_text,
     processed      |-> TRUE,
     document_type  |-> "null",
     sama_compliant |-> FALSE]

\* the commit of _store_result goes through: session usable and database up
IngestCommits == docDb = "session" /\ docSession = "active" /\ dbUp

\* mutation: kyc-validation-requested is published before document-processed
IngestEvents_Swapped(buf, result) ==
    send_event(send_event(buf, "kyc-validation-requested", result.document_id,
                          [document_id   |-> result.document_id,
                           customer_id   |-> result.customer_id,
                           document_type |-> result.document_type]),
               "document-processed", result.document_id,
               [document_id    |-> result.document_id,
                customer_id    |-> result.customer_id,
                document_type  |-> result.document_type,
                sama_compliant |-> result.sama_compliant,
                processed_at   |-> result.processed_at])

\* _send_event
IngestEvents(buf, result) ==
    send_event(send_event(buf, "document-processed", result.document_id,
                          [document_id    |-> result.document_id,
                           customer_id    |-> result.customer_id,
                           document_type  |-> result.document_type,
                           sama_compliant |-> result.sama_compliant,
                           processed_at   |-> result.processed_at]),
               "kyc-validation-requested", result.document_id,
               [document_id   |-> result.document_id,
                customer_id   |-> result.customer_id,
                document_type |-> result.document_type])

\* the arguments of a process_document call with what it returned
Returned(file, cust, value) == [path |-> file.path, customer_id |-> cust, value |-> value]

MapPut(m, k, v) == [x \in DOMAIN m \cup {k} |-> IF x = k THEN v ELSE m[x]]

\* process_document(file_path, customer_id)
ProcessDocument(file, cust, analysis) ==
    LET result == IngestResult(file, cust, analysis, now, nIngest)
        doc_id == result.document_id
        cache  == docRedis /\ redisUp
    IN /\ nIngest < MaxIngest
       /\ nIngest' = nIngest + 1
       /\ IF ~file.exists
          THEN /\ docRet' = Returned(file, cust, FileNotFound)
               /\ UNCHANGED <<redis, mock_events, chroma, documents, docMemory, docSession>>
          ELSE IF cache /\ RedisHas(redis, DocKey(doc_id))
          THEN /\ docRet' = Returned(file, cust, RedisGet(redis, DocKey(doc_id)))
               /\ UNCHANGED <<redis, mock_events, chroma, documents, docMemory, docSession>>
          ELSE /\ chroma' = Append(chroma, ChromaEntry(result))
               /\ redis' = IF cache THEN RedisSetex(redis, DocKey(doc_id), DocTTL, result, now)
                           ELSE redis
               /\ documents' = IF IngestCommits THEN Append(documents, DocumentRow(result))
                               ELSE documents
               /\ docSession' = IF docDb = "session" /\ ~dbUp THEN "inactive" ELSE docSession
               /\ docMemory' = IF docDb = "memory" THEN MapPut(docMemory, doc_id, result)
                               ELSE docMemory
               /\ mock_events' = IF docDb = "none" THEN mock_events
                                 ELSE IngestEvents(mock_events, result)
               /\ docRet' = Returned(file, cust, IF docDb = "none" THEN IngestRaised ELSE result)
       /\ UNCHANGED <<now, nTicks, redisUp, dbUp, busUp, ollama, asked, scoreVars, auditVars, kycVars,
                      docRedis, docDb, sumRedis, sumDb, kyc_validations,
                      compliance_summaries, memory_storage, pc, call, sumRet, nSum, chatVars>>

(***************************************************************************)
(* KYC validation agent: SAMAKYCValidationAgent                            *)
(* The rule checks add float weights; the sums and their thresholds are    *)
(* kept here in exact tenths, which decide every comparison as the floats  *)
(* do.                                                                     *)
(***************************************************************************)
KycTTL == 3600

KycKey(doc_id) == <<"kyc", doc_id>>

Weight(found, tenths) == IF found THEN tenths ELSE 0

\* re.search(r'\b\d{10}\b', text)
HasDigits10(f) == "digits10" \in f \/ "saudi_id" \in f

\* re.search(r'\b\d{10,}\b', text)
HasAccount(f) == HasDigits10(f) \/ "long_number" \in f

\* the result of a rule check: score in tenths, threshold in tenths
Checked(tenths, threshold) ==
    [status |-> IF tenths >= threshold THEN "passed" ELSE "failed",
     score  |-> <<tenths, 10>>]

\* _validate_commercial_registration
ValidateCommercialRegistration(f) ==
    Checked(Weight(HasDigits10(f), 3) + Weight("company" \in f, 2)
                + Weight("capital" \in f, 2) + Weight("sar" \in f, 2)
                + Weight("date" \in f, 1), 7)

\* _validate_national_id
ValidateNationalId(f) ==
    Checked(Weight("saudi_id" \in f, 4) + Weight("name" \in f, 3)
                + Weight("birth" \in f, 2) + Weight("saudi" \in f, 1), 7)

\* _validate_bank_statement
\* mutation: the bank name weighs 0.3
ValidateBankStatement_Heavy(f) ==
    Checked(Weight(HasAccount(f), 3) + Weight("iban" \in f, 3)
                + Weight("sar" \in f, 2) + Weight("bank" \in f, 3), 6)

ValidateBankStatement(f) ==
    Checked(Weight(HasAccount(f), 3) + Weight("iban" \in f, 3)
                + Weight("sar" \in f, 2) + Weight("bank" \in f, 2), 6)

\* _validate_generic
ValidateGeneric == [status |-> "pending", score |-> <<1, 2>>]

NotFound == [id |-> "none"]

WithId(rows, id) == SelectSeq(rows, LAMBDA r : r.id = id)

\* mutation: a document that is nowhere is replaced by an empty one
RetrieveDocument_Placeholder(doc_id) ==
    LET rows == IF kycDb = "session" /\ dbUp THEN WithId(documents, doc_id) ELSE <<>>
        held == WithId(chroma, doc_id)
    IN IF rows # <<>>
       THEN [id |-> rows[1].id, text |-> rows[1].extracted_text,
             type |-> rows[1].document_type, customer_id |-> rows[1].customer_id]
       ELSE IF held # <<>>
       THEN [id |-> doc_id, text |-> held[1].text,
             type |-> held[1].document_type, customer_id |-> held[1].customer_id]
       ELSE [id |-> doc_id, text |-> EmptyText, type |-> "unknown", customer_id |-> "none"]

\* _retrieve_document: the row of table documents, else the ChromaDB entry
RetrieveDocument(doc_id) ==
    LET rows == IF kycDb = "session" /\ dbUp THEN WithId(documents, doc_id) ELSE <<>>
        held == WithId(chroma, doc_id)
    IN IF rows # <<>>
       THEN [id |-> rows[1].id, text |-> rows[1].extracted_text,
             type |-> rows[1].document_type, customer_id |-> rows[1].customer_id]
       ELSE IF held # <<>>
       THEN [id |-> doc_id, text |-> held[1].text,
             type |-> held[1].document_type, customer_id |-> held[1].customer_id]
       ELSE NotFound

\* hashlib.md5(f"{document['id']}_{datetime.now()}")
ValidationId(doc_id, t, n) == <<<<doc_id, t, n>>, "x">>

\* the rule check chosen by the document type
RuleCheck(document) ==
    IF document.type = "commercial_registration"
    THEN ValidateCommercialRegistration(Features(document.text))
    ELSE IF document.type = "national_id"
    THEN ValidateNationalId(Features(document.text))
    ELSE IF document.type = "bank_statement"
    THEN ValidateBankStatement(Features(document.text))
    ELSE ValidateGeneric

\* _perform_validation (the notes of the language model leave status and score alone)
PerformValidation(document, cust, t, n) ==
    [validation_id     |-> ValidationId(document.id, t, n),
     document_id       |-> document.id,
     customer_id       |-> cust,
     document_type     |-> document.type,
     validation_status |-> RuleCheck(document).status,
     validation_score  |-> RuleCheck(document).score,
     validated_at      |-> t]

DocumentNotFound == [status |-> "error", message |-> "Document not found"]

\* KYCValidation(id, document_id, customer_id, validation_status, validation_score, ...)
KycRow(v) ==
    [id                |-> v.validation_id,
     document_id       |-> v.document_id,
     customer_id       |-> v.customer_id,
     validation_status |-> v.validation_status,
     validation_score  |-> v.validation_score]

\* mutation: the summary is requested whatever the status
KycEvents_Always(buf, v, t) ==
    send_event(send_event(buf, "kyc-validation-completed", v.document_id,
                          [validation_id |-> v.validation_id,
                           document_id   |-> v.document_id,
                           customer_id   |-> v.customer_id,
                           status        |-> v.validation_status,
                           score         |-> v.validation_score,
                           validated_at  |-> v.validated_at]),
               "compliance-summary-requested", v.customer_id,
               [customer_id   |-> v.customer_id,
                validation_id |-> v.validation_id,
                requested_at  |-> t])

\* _send_events
KycEvents(buf, v, t) ==
    LET completed ==
            send_event(buf, "kyc-validation-completed", v.document_id,
                       [validation_id |-> v.validation_id,
                        document_id   |-> v.document_id,
                        customer_id   |-> v.customer_id,
                        status        |-> v.validation_status,
                        score         |-> v.validation_score,
                        validated_at  |-> v.validated_at])
    IN IF v.validation_status = "passed"
       THEN send_event(completed, "compliance-summary-requested", v.customer_id,
                       [customer_id   |-> v.customer_id,
                        validation_id |-> v.validation_id,
                        requested_at  |-> t])
       ELSE completed

\* the arguments of a validate_kyc call with what it returned
Answered(doc_id, cust, value) ==
    [document_id |-> doc_id, customer_id |-> cust, value |-> value]

\* validate_kyc(document_id, customer_id)
ValidateKyc(doc_id, cust) ==
    LET cache    == kycRedis /\ redisUp
        document == RetrieveDocument(doc_id)
        result   == PerformValidation(document, cust, now, nValidate)
    IN /\ nValidate < MaxValidate
       /\ nValidate' = nValidate + 1
       /\ IF cache /\ RedisHas(redis, KycKey(doc_id))
          THEN /\ kycRet' = Answered(doc_id, cust, RedisGet(redis, KycKey(doc_id)))
               /\ UNCHANGED <<redis, mock_events, kyc_validations, kycMemory>>
          ELSE IF document = NotFound
          THEN /\ kycRet' = Answered(doc_id, cust, DocumentNotFound)
               /\ UNCHANGED <<redis, mock_events, kyc_validations, kycMemory>>
          ELSE /\ kyc_validations' = IF kycDb = "session" /\ dbUp
                                     THEN Append(kyc_validations, KycRow(result))
                                     ELSE kyc_validations
               /\ kycMemory' = IF kycDb = "memory"
                               THEN MapPut(kycMemory, result.validation_id, result)
                               ELSE kycMemory
               /\ redis' = IF cache THEN RedisSetex(redis, KycKey(doc_id), KycTTL, result, now)
                           ELSE redis
               /\ mock_events' = KycEvents(mock_events, result, now)
               /\ kycRet' = Answered(doc_id, cust, result)
       /\ UNCHANGED <<now, nTicks, redisUp, dbUp, busUp, ollama, asked, scoreVars, auditVars, docVars,
                      kycRedis, kycDb, sumRedis, sumDb, documents, chroma,
                      compliance_summaries, memory_storage, pc, call, sumRet, nSum, chatVars>>

(***************************************************************************)
(* Ingestion and validation one call at a time: every start-up outcome of  *)
(* the two agents, with and without a cache, the database up.              *)
(***************************************************************************)
PipeModes == {"session", "none", "memory"}

IngestCustomers == {"c1"}

\* a document id no ingestion produced
UnknownId == <<<<"unknown", "none", 0, 0>>, "x">>

\* the ids of the stored documents
KnownIds ==
    {documents[i].id : i \in 1..Len(documents)} \cup {chroma[i].id : i \in 1..Len(chroma)}

\* 40 minutes: the second step lies more than KycTTL after the first
PipelineDeltas == {2400}

MaxPipeTicks == 2

\* calls of process_document and validate_kyc in one run
MaxPipeCalls == 3

InitPipeline ==
    /\ ChatIdle
    /\ EnvIdle
    /\ ScoreIdle
    /\ AuditIdle
    /\ SumIdle
    /\ docRedis \in BOOLEAN
    /\ kycRedis = docRedis
    /\ docDb \in PipeModes
    /\ kycDb = docDb
    /\ docSession = "active"
    /\ docMemory = EmptyRedis
    /\ docRet = NoDocument
    /\ nIngest = 0
    /\ kycMemory = EmptyRedis
    /\ kycRet = NoValidation
    /\ nValidate = 0
    /\ durable = NoAttempt

IngestFile ==
    \E file \in Files, cust \in IngestCustomers, analysis \in Analyses :
        /\ nIngest + nValidate < MaxPipeCalls
        /\ ProcessDocument(file, cust, analysis)
        /\ UNCHANGED durable

ValidateDocument ==
    \E doc_id \in KnownIds \cup {UnknownId}, cust \in Customers :
        /\ nIngest + nValidate < MaxPipeCalls
        /\ ValidateKyc(doc_id, cust)
        /\ UNCHANGED durable

TickPipeline ==
    \E d \in PipelineDeltas : nTicks < MaxPipeTicks /\ Tick(d)

NextPipeline == IngestFile \/ ValidateDocument \/ TickPipeline

SpecPipeline == InitPipeline /\ [][NextPipeline]_vars

(***************************************************************************)
(* Observer of the database: the time of the last attempt that failed      *)
(* (-1 after an attempt that went through) and whether some attempt was    *)
(* made less than ProbeInterval after a failed one.                        *)
(***************************************************************************)
ProbeInterval == 30

Attempt(d, ok, t) ==
    [failed_at |-> IF ok THEN -1 ELSE t,
     early     |-> d.early \/ (d.failed_at # -1 /\ t < d.failed_at + ProbeInterval)]

\* process_document goes to the database once, in _store_result
ObserveIngest(file) ==
    durable' = IF file.exists /\ docDb = "session" /\ docSession = "active"
               THEN Attempt(durable, dbUp, now)
               ELSE durable

\* validate_kyc goes to the database in _retrieve_document and, with a
\* document in hand, in _store_validation
ObserveValidate(doc_id) ==
    durable' = IF kycDb = "session" /\ ~(kycRedis /\ redisUp /\ RedisHas(redis, KycKey(doc_id)))
               THEN IF RetrieveDocument(doc_id) # NotFound
                    THEN Attempt(Attempt(durable, dbUp, now), dbUp, now)
                    ELSE Attempt(durable, dbUp, now)
               ELSE durable

(***************************************************************************)
(* Failover: both agents obtained a session at start-up and run without a  *)
(* cache; the database fails and recovers while they work.                 *)
(***************************************************************************)
\* one re-probe interval
FailoverDeltas == {30}

InitFailover ==
    /\ ChatIdle
    /\ InitPipeline
    /\ docDb = "session"
    /\ docRedis = FALSE

IngestFailover ==
    \E file \in Files, cust \in IngestCustomers, analysis \in Analyses :
        /\ nIngest + nValidate < MaxPipeCalls
        /\ ProcessDocument(file, cust, analysis)
        /\ ObserveIngest(file)

ValidateFailover ==
    \E doc_id \in KnownIds \cup {UnknownId}, cust \in Customers :
        /\ nIngest + nValidate < MaxPipeCalls
        /\ ValidateKyc(doc_id, cust)
        /\ ObserveValidate(doc_id)

TickFailover ==
    \E d \in FailoverDeltas : nTicks < MaxPipeTicks /\ Tick(d)

NextFailover == IngestFailover \/ ValidateFailover \/ TickFailover \/ DbFail \/ DbRecover

SpecFailover == InitFailover /\ [][NextFailover]_vars

(***************************************************************************)
(* The whole workflow one call at a time: documents are ingested,          *)
(* validated and summarized for one subject; the three agents started the  *)
(* same way (database and cache), the database up.                         *)
(***************************************************************************)
\* the subject of the workflow
Subject == "c1"

\* the files that exist
FoundFiles == {f \in Files : f.exists /\ f.text # EmptyText}

\* the agent instance that summarizes
Summarizer == CHOOSE w \in Workers : TRUE

\* the three agents after __init__, nothing ingested yet
WorkflowIdle ==
    /\ docRedis \in BOOLEAN
    /\ kycRedis = docRedis
    /\ sumRedis = docRedis
    /\ docDb \in PipeModes
    /\ kycDb = docDb
    /\ sumDb = [w \in Workers |-> docDb]
    /\ docSession = "active"
    /\ docMemory = EmptyRedis
    /\ docRet = NoDocument
    /\ nIngest = 0
    /\ kycMemory = EmptyRedis
    /\ kycRet = NoValidation
    /\ nValidate = 0
    /\ durable = NoAttempt
    /\ documents = <<>>
    /\ kyc_validations = <<>>
    /\ chroma = <<>>
    /\ compliance_summaries = <<>>
    /\ memory_storage = [w \in Workers |-> EmptyRedis]
    /\ pc = [w \in Workers |-> "idle"]
    /\ call = [w \in Workers |-> NoCall]
    /\ sumRet = [w \in Workers |-> NoSummary]
    /\ nSum = 0

InitWorkflow ==
    /\ ChatIdle
    /\ EnvIdle
    /\ ScoreIdle
    /\ AuditIdle
    /\ WorkflowIdle

IngestSubject ==
    \E file \in FoundFiles, analysis \in Analyses :
        /\ AllIdle
        /\ nIngest + nValidate < MaxPipeCalls
        /\ ProcessDocument(file, Subject, analysis)
        /\ UNCHANGED durable

ValidateSubject ==
    \E doc_id \in KnownIds :
        /\ AllIdle
        /\ nIngest + nValidate < MaxPipeCalls
        /\ ValidateKyc(doc_id, Subject)
        /\ UNCHANGED durable

SummarizeSubject ==
    AllIdle /\ BeginSummary(Summarizer, Subject)

NextWorkflow ==
    IngestSubject \/ ValidateSubject \/ SummarizeSubject \/ StepSummary \/ TickPipeline

SpecWorkflow == InitWorkflow /\ [][NextWorkflow]_vars

(***************************************************************************)
(* The workflow with a cache that comes and goes: every agent has its      *)
(* Redis client, the server stops answering and answers again between two  *)
(* calls or between two steps of generate_summary.                         *)
(***************************************************************************)
InitCacheOutage ==
    /\ InitWorkflow
    /\ docRedis = TRUE

NextCacheOutage ==
    \/ IngestSubject
    \/ ValidateSubject
    \/ SummarizeSubject
    \/ StepSummary
    \/ RedisFail
    \/ RedisRecover

SpecCacheOutage == InitCacheOutage /\ [][NextCacheOutage]_vars

(***************************************************************************)
(* The agents with a bus that fails and comes back: one run drives either  *)
(* the pipeline of the subject (every agent with its Redis client) or the  *)
(* audit agent, which logs failure events of the subject until the         *)
(* repeated-failure anomaly is published.                                  *)
(***************************************************************************)
BusFail ==
    /\ busUp
    /\ busUp' = FALSE
    /\ UNCHANGED <<now, nTicks, redis, redisUp, dbUp, ollama, asked, mock_events, scoreVars, auditVars,
                   sumVars, pipeVars, chatVars>>

BusRecover ==
    /\ ~busUp
    /\ busUp' = TRUE
    /\ UNCHANGED <<now, nTicks, redis, redisUp, dbUp, ollama, asked, mock_events, scoreVars, auditVars,
                   sumVars, pipeVars, chatVars>>

InitBus ==
    /\ ChatIdle
    /\ EnvIdle
    /\ ScoreIdle
    /\ WorkflowIdle
    /\ docRedis = TRUE
    /\ auditRedis = TRUE
    /\ auditDb \in {"session", "memory"}
    /\ audit_logs = <<>>
    /\ memory_logs = <<>>
    /\ auditRet = NoRet
    /\ nAudit = 0
    /\ win = EmptyRedis
    /\ auditReport = NoReport
    /\ auditMetrics = NoMetrics
    /\ writers = NoWriters

PipelineUntouched == nIngest = 0 /\ nValidate = 0 /\ nSum = 0

LogFailure ==
    \E src \in AnomalySources :
        /\ PipelineUntouched
        /\ nAudit < MaxAudit
        /\ LogEvent(src, Subject, "failure")
        /\ UNCHANGED win

NextBus ==
    \/ nAudit = 0 /\ IngestSubject
    \/ nAudit = 0 /\ ValidateSubject
    \/ nAudit = 0 /\ SummarizeSubject
    \/ StepSummary
    \/ LogFailure
    \/ BusFail
    \/ BusRecover

SpecBus == InitBus /\ [][NextBus]_vars

(***************************************************************************)
(* Concurrent audit writes: the callers log one failure event of the       *)
(* subject each, within one second, through an agent that started with a   *)
(* session and a Redis client; their Redis commands interleave and the     *)
(* server may stop answering between two commands.                         *)
(***************************************************************************)
WriterSource == [event_type |-> "kyc-validation-completed", agent_name |-> "KYCValidationAgent"]

\* log_event up to line 469: the entry is stored, the metrics are updated,
\* the failure counter is incremented
WriterIncr(a) ==
    LET entry == LogEntry(WriterSource, Subject, "failure", now)
        r1    == UpdateMetrics(redis, WriterSource.event_type, now)
        r2    == RedisIncr(r1, FailureKey(Subject))
    IN /\ writers[a].pc = "idle"
       /\ audit_logs' = StoreAuditDb(audit_logs, entry)
       /\ memory_logs' = StoreAuditMemory(memory_logs, entry)
       /\ IF AuditCache
          THEN /\ redis' = r2
               /\ writers' = [writers EXCEPT ![a] =
                                 [pc        |-> "expire",
                                  failures  |-> r2[FailureKey(Subject)].val,
                                  anomalies |-> <<>>]]
          ELSE \* incr raised (except: pass); the rate block raises as well
               /\ redis' = redis
               /\ writers' = [writers EXCEPT ![a].pc = "done"]
       /\ UNCHANGED <<now, nTicks, redisUp, dbUp, busUp, ollama, asked, mock_events, auditRedis, auditDb,
                      auditRet, nAudit, win, auditReport, auditMetrics, scoreVars,
                      sumVars, pipeVars, chatVars>>

\* log_event from line 470: expire, the threshold test, the rate block,
\* _handle_anomalies, return
WriterExpire(a) ==
    LET failures == IF AuditCache THEN writers[a].failures ELSE 0
        r1       == IF AuditCache
                    THEN RedisExpire(redis, FailureKey(Subject), FailureTTL, now)
                    ELSE redis
        dr       == DetectRate(r1, WriterSource.event_type, now)
        anoms    == Anomalies(failures, dr.rate, Subject, WriterSource.event_type)
    IN /\ writers[a].pc = "expire"
       /\ redis' = HandleAlerts(dr.redis, anoms, now)
       /\ mock_events' = HandleBus(mock_events, anoms, now)
       /\ writers' = [writers EXCEPT ![a].pc = "done", ![a].anomalies = anoms]
       /\ UNCHANGED <<now, nTicks, redisUp, dbUp, busUp, ollama, asked, auditRedis, auditDb, audit_logs,
                      memory_logs, auditRet, nAudit, win, auditReport, auditMetrics,
                      scoreVars, sumVars, pipeVars, chatVars>>

InitWriters ==
    /\ ChatIdle
    /\ EnvIdle
    /\ ScoreIdle
    /\ SumIdle
    /\ PipeIdle
    /\ auditRedis = TRUE
    /\ auditDb = "session"
    /\ audit_logs = <<>>
    /\ memory_logs = <<>>
    /\ auditRet = NoRet
    /\ nAudit = 0
    /\ win = EmptyRedis
    /\ auditReport = NoReport
    /\ auditMetrics = NoMetrics
    /\ writers = NoWriters

LogConcurrently == \E a \in AuditWriters : WriterIncr(a) \/ WriterExpire(a)

NextWriters == LogConcurrently \/ RedisFail \/ RedisRecover

SpecWriters == InitWriters /\ [][NextWriters]_vars

(***************************************************************************)
(* The inline calls to the language model: ingest, validate, summarize and *)
(* chat each send their prompt with OllamaForAgno.invoke and wait for the  *)
(* answer.  requests.post is called without a timeout (the argument is     *)
(* commented out), so the wait ends only when the service answers or       *)
(* refuses the connection.                                                 *)
(***************************************************************************)
OllamaStates == {"up", "down", "hung"}

\* requests.post(f"{base_url}/api/generate", json=...) is sent
AskModel(op) ==
    /\ asked[op] = "idle"
    /\ asked' = [asked EXCEPT ![op] = "waiting"]
    /\ UNCHANGED <<now, nTicks, redis, redisUp, dbUp, busUp, ollama, mock_events, scoreVars,
                   auditVars, sumVars, pipeVars, chatVars>>

\* the response arrives: invoke returns its text
ModelAnswers(op) ==
    /\ asked[op] = "waiting"
    /\ ollama = "up"
    /\ asked' = [asked EXCEPT ![op] = "answered"]
    /\ UNCHANGED <<now, nTicks, redis, redisUp, dbUp, busUp, ollama, mock_events, scoreVars,
                   auditVars, sumVars, pipeVars, chatVars>>

\* the connection is refused: except Exception, invoke returns "Ollama error: ..."
\* and the caller takes its default analysis or basic summary
ModelRefuses(op) ==
    /\ asked[op] = "waiting"
    /\ ollama = "down"
    /\ asked' = [asked EXCEPT ![op] = "fallback"]
    /\ UNCHANGED <<now, nTicks, redis, redisUp, dbUp, busUp, ollama, mock_events, scoreVars,
                   auditVars, sumVars, pipeVars, chatVars>>

\* the operation goes on and returns to its caller
ReturnToCaller(op) ==
    /\ asked[op] \in {"answered", "fallback"}
    /\ asked' = [asked EXCEPT ![op] = "idle"]
    /\ UNCHANGED <<now, nTicks, redis, redisUp, dbUp, busUp, ollama, mock_events, scoreVars,
                   auditVars, sumVars, pipeVars, chatVars>>

\* the service stops, hangs or comes back
OllamaChanges ==
    /\ \E s \in OllamaStates \ {ollama} : ollama' = s
    /\ UNCHANGED <<now, nTicks, redis, redisUp, dbUp, busUp, asked, mock_events, scoreVars,
                   auditVars, sumVars, pipeVars, chatVars>>

InitInline ==
    /\ ChatIdle
    /\ EnvIdle
    /\ ScoreIdle
    /\ AuditIdle
    /\ SumIdle
    /\ PipeIdle

InlineCall ==
    \E op \in InlineCallers :
        AskModel(op) \/ ModelAnswers(op) \/ ModelRefuses(op) \/ ReturnToCaller(op)

NextInline == InlineCall \/ OllamaChanges

\* the agents keep running and a service that is reachable again and again
\* gets to answer or to refuse; nothing is assumed about the service itself
SpecInline ==
    /\ InitInline
    /\ [][NextInline]_vars
    /\ \A op \in InlineCallers :
          /\ SF_vars(ModelAnswers(op))
          /\ SF_vars(ModelRefuses(op))
          /\ WF_vars(ReturnToCaller(op))

(***************************************************************************)
(* Audit report: events of two subjects are logged 25 minutes apart by an  *)
(* agent without Redis client, the database up; one report is read.        *)
(***************************************************************************)
\* the events logged: those of test_audit_agent and one with a status that
\* the breakdown does not know
ReportEvents ==
    StoredEvents \cup
        {[src |-> [event_type |-> "chat-interaction", agent_name |-> "ComplianceChatAgent"],
          status |-> "error"]}

\* the default range (last 24 hours) and a range whose bounds are event times
BoundedRanges == {DefaultRange, [start |-> 1500, end |-> 3000]}

InitReport ==
    /\ InitAudit
    /\ auditRedis = FALSE

LogReportEvent ==
    \E ev \in ReportEvents, cust \in Customers :
        /\ nAudit < MaxStored
        /\ LogEvent(ev.src, cust, ev.status)
        /\ UNCHANGED win

ReadBoundedReport ==
    \E cust \in ReportFilters, range \in BoundedRanges : GetAuditReport(cust, range)

NextReport == LogReportEvent \/ ReadBoundedReport \/ TickAudit

SpecReport == InitReport /\ [][NextReport]_vars

(***************************************************************************)
(* Rule checks and scoring as a function of the document content: a        *)
(* document of any type with any combination of the features the rule      *)
(* checks look for is validated, then scored with its compliance flag      *)
(* next to at most one earlier validation.                                 *)
(***************************************************************************)
\* what the searches of the four validators can find in a text
RuleFeatures ==
    {"digits10", "saudi_id", "long_number", "company", "capital", "sar", "date",
     "name", "birth", "saudi", "iban", "bank"}

RuleDocId == <<"d1", "x">>

InitRules ==
    /\ ChatIdle
    /\ EnvIdle
    /\ AuditIdle
    /\ SumIdle
    /\ PipeIdle
    /\ ruleIn \in {[id |-> RuleDocId, text |-> [head |-> f, tail |-> {}], type |-> t,
                    customer_id |-> Subject] : f \in SUBSET RuleFeatures, t \in DocTypes}
    /\ ruleOut = NoScore
    /\ scoreDocs \in {<<[type |-> ruleIn.type, compliant |-> c]>> : c \in BOOLEAN}
    /\ scoreVals \in SeqsUpTo(ScoreVals, 1)
    /\ scoreOut = NoScore

\* validation_result = self._perform_validation(document, customer_id)
CheckRules ==
    /\ ruleOut = NoScore
    /\ ruleOut' = PerformValidation(ruleIn, Subject, now, 0)
    /\ scoreVals' = Append(scoreVals, [document_id |-> ruleIn.id,
                                       status      |-> ruleOut'.validation_status,
                                       score       |-> ruleOut'.validation_score])
    /\ UNCHANGED <<scoreDocs, scoreOut, ruleIn, envVars, auditVars, sumVars, pipeVars, chatVars>>

\* scores = self._calculate_scores(documents, validations)
ScoreChecked ==
    /\ ruleOut # NoScore
    /\ scoreOut = NoScore
    /\ scoreOut' = calculate_scores(scoreDocs, scoreVals)
    /\ UNCHANGED <<scoreDocs, scoreVals, ruleIn, ruleOut, envVars, auditVars, sumVars,
                   pipeVars, chatVars>>

NextRules == CheckRules \/ ScoreChecked

SpecRules == InitRules /\ [][NextRules]_vars

(***************************************************************************)
(* Compliance chat agent: SAMAComplianceChatAgent.  The answer of the       *)
(* language model is left out of an exchange; a query is identified by its *)
(* caller and its number.  A history read from Redis is a new list         *)
(* (json.loads); a history read from self.conversations is the list object *)
(* stored there, which append changes in place.                            *)
(***************************************************************************)
\* 7200  # 2 hours TTL
ChatTTL == 7200

ChatSessions == {"s1"}

HistoryKey(session_id) == <<"chat:history", session_id>>

\* the Redis client is there and the server answers
ChatCache == chatRedis /\ redisUp

\* _get_conversation_history: obj is the list object returned (0: a new list)
GetConversationHistory(session_id) ==
    IF ChatCache /\ RedisHas(redis, HistoryKey(session_id))
    THEN [obj |-> 0, val |-> RedisGet(redis, HistoryKey(session_id))]
    ELSE IF session_id \in DOMAIN conversations
    THEN [obj |-> conversations[session_id], val |-> lists[conversations[session_id]]]
    ELSE [obj |-> 0, val |-> <<>>]

\* chat, lines 117-128: the history is read for the prompt, the answer is generated
ChatBegin(c, session_id) ==
    /\ chatters[c].pc = "idle"
    /\ nChat < MaxChat
    /\ nChat' = nChat + 1
    /\ chatters' = [chatters EXCEPT ![c] =
                       [pc         |-> "load",
                        session_id |-> session_id,
                        query      |-> <<c, nChat + 1>>,
                        read       |-> GetConversationHistory(session_id).val]]
    /\ UNCHANGED <<envVars, scoreVars, auditVars, sumVars, pipeVars, chatRedis,
                   conversations, lists, chatRet>>

\* _store_conversation, lines 319-327: the history is read again and the entry appended
ChatLoad(c) ==
    LET session_id == chatters[c].session_id
        entry      == [query |-> chatters[c].query, timestamp |-> now]
        history    == GetConversationHistory(session_id)
    IN /\ chatters[c].pc = "load"
       /\ lists' = IF history.obj = 0
                   THEN Append(lists, Append(history.val, entry))
                   ELSE [lists EXCEPT ![history.obj] = Append(@, entry)]
       /\ chatters' = [chatters EXCEPT ![c] =
                          [pc         |-> "store",
                           session_id |-> session_id,
                           query      |-> chatters[c].query,
                           read       |-> chatters[c].read,
                           history    |-> IF history.obj = 0 THEN Len(lists) + 1
                                          ELSE history.obj]]
       /\ UNCHANGED <<envVars, scoreVars, auditVars, sumVars, pipeVars, chatRedis,
                      conversations, chatRet, nChat>>

\* _store_conversation, lines 329-342, _log_interaction, return of chat
ChatStore(c) ==
    LET session_id == chatters[c].session_id
        history    == chatters[c].history
    IN /\ chatters[c].pc = "store"
       /\ redis' = IF ChatCache
                   THEN RedisSetex(redis, HistoryKey(session_id), ChatTTL, lists[history], now)
                   ELSE redis
       /\ conversations' = MapPut(conversations, session_id, history)
       /\ mock_events' = send_event(mock_events, "chat-interaction", session_id,
                                    [session_id |-> session_id,
                                     query      |-> chatters[c].query,
                                     timestamp  |-> now])
       /\ chatRet' = [kind       |-> "chat",
                      session_id |-> session_id,
                      query      |-> chatters[c].query,
                      history    |-> chatters[c].read]
       /\ chatters' = [chatters EXCEPT ![c] = NoChatter]
       /\ UNCHANGED <<now, nTicks, redisUp, dbUp, busUp, ollama, asked, scoreVars, auditVars,
                      sumVars, pipeVars, chatRedis, lists, nChat>>

\* get_session_summary(session_id); total_queries is -1 where the message
\* "No conversation history found" is returned
GetSessionSummary(session_id) ==
    LET history == GetConversationHistory(session_id).val
    IN /\ chatRet' = [kind          |-> "summary",
                      session_id    |-> session_id,
                      history       |-> history,
                      total_queries |-> IF history = <<>> THEN -1 ELSE Len(history),
                      queries       |-> [i \in 1..Len(history) |-> history[i].query]]
       /\ UNCHANGED <<envVars, scoreVars, auditVars, sumVars, pipeVars, chatRedis,
                      conversations, lists, chatters, nChat>>

\* 70 minutes: two steps lie more than ChatTTL apart, one step does not
ChatDeltas == {4200}

ChatModes ==
    /\ EnvIdle
    /\ ScoreIdle
    /\ AuditIdle
    /\ SumIdle
    /\ PipeIdle
    /\ chatRedis \in BOOLEAN
    /\ conversations = EmptyRedis
    /\ lists = <<>>
    /\ chatters = [c \in ChatCallers |-> NoChatter]
    /\ chatRet = NoChat
    /\ nChat = 0

NoneChatting == \A c \in ChatCallers : chatters[c].pc = "idle"

\* one chat call at a time
ChatInTurn ==
    \E c \in ChatCallers, session_id \in ChatSessions :
        NoneChatting /\ ChatBegin(c, session_id)

ChatStep == \E c \in ChatCallers : ChatLoad(c) \/ ChatStore(c)

ReadSummary ==
    \E session_id \in ChatSessions :
        /\ NoneChatting
        /\ chatRet.kind # "summary"
        /\ GetSessionSummary(session_id)

TickChat ==
    /\ NoneChatting
    /\ \E d \in ChatDeltas : Tick(d)

NextChat == ChatInTurn \/ ChatStep \/ ReadSummary \/ TickChat

SpecChat == ChatModes /\ [][NextChat]_vars

\* chat calls of two threads interleave at the Redis commands
ChatConcurrently ==
    \E c \in ChatCallers, session_id \in ChatSessions : ChatBegin(c, session_id)

NextChatters == ChatConcurrently \/ ChatStep \/ ReadSummary

SpecChatters == ChatModes /\ [][NextChatters]_vars

(***************************************************************************)
(* Claims about the scoring engine (checked under SpecScore)               *)
(***************************************************************************)
Scored == scoreOut # NoScore

\* documentComplianceRate of the specification: compliant / total, 0 without documents
DocumentComplianceRate(docs) ==
    IF Len(docs) = 0 THEN RatZero ELSE <<CompliantCount(docs), Len(docs)>>

\* C3: for every list of documents and validations the returned overall score is
\* 0.6 * documentComplianceRate + 0.4 * meanValidationScore, the rate being 0
\* without documents (so 0.4 * mean when only validations exist).
C3_OverallScoreFormula ==
    Scored =>
        RatEq(scoreOut.overall_score,
              RatAdd(RatMul(<<6, 10>>, DocumentComplianceRate(scoreDocs)),
                     RatMul(<<4, 10>>, AvgValidationScore(scoreVals))))

\* C4: the status is decided by the overall score alone: compliant exactly when
\* score >= 0.8, partially_compliant exactly when 0.6 <= score < 0.8, non_compliant
\* otherwise; both boundaries belong to the higher status.
C4_StatusThresholds ==
    Scored =>
        /\ (scoreOut.status = "compliant") <=> RatGeq(scoreOut.overall_score, <<8, 10>>)
        /\ (scoreOut.status = "partially_compliant") <=>
               (RatGeq(scoreOut.overall_score, <<6, 10>>)
                   /\ ~RatGeq(scoreOut.overall_score, <<8, 10>>))
        /\ (scoreOut.status = "non_compliant") <=> ~RatGeq(scoreOut.overall_score, <<6, 10>>)

\* a score exactly on the 0.8 boundary has been computed and is compliant
C4_Witness ==
    /\ Scored
    /\ RatEq(scoreOut.overall_score, <<8, 10>>)
    /\ scoreOut.status = "compliant"

CountIn(seq, x) == Cardinality({i \in 1..Len(seq) : seq[i] = x})

HasType(docs, t) == \E i \in 1..Len(docs) : docs[i].type = t

MandatoryTypes == {required_types[k] : k \in 1..Len(required_types)}

MissingTypes(docs) == {t \in MandatoryTypes : ~HasType(docs, t)}

NotPassed(vals) == {i \in 1..Len(vals) : vals[i].status # "passed"}

\* C5: the issue list holds exactly one missing-document issue, and the
\* recommendation list exactly one matching recommendation, per mandatory type
\* no document has, exactly one failed-validation issue per validation that is
\* not passed (pending included), and nothing else.
C5_IssuesExact ==
    Scored =>
        /\ \A t \in MandatoryTypes :
              /\ CountIn(scoreOut.all_issues, [kind |-> "missing", what |-> t])
                     = (IF HasType(scoreDocs, t) THEN 0 ELSE 1)
              /\ CountIn(scoreOut.all_recommendations, [kind |-> "provide", what |-> t])
                     = (IF HasType(scoreDocs, t) THEN 0 ELSE 1)
        /\ Cardinality({i \in 1..Len(scoreOut.all_issues) :
                            scoreOut.all_issues[i].kind = "validation_failed"})
               = Cardinality(NotPassed(scoreVals))
        /\ \A i \in NotPassed(scoreVals) :
              \E j \in 1..Len(scoreOut.all_issues) :
                  scoreOut.all_issues[j] = [kind |-> "validation_failed",
                                            what |-> Trunc8(scoreVals[i].document_id)]
        /\ Len(scoreOut.all_issues)
               = Cardinality(MissingTypes(scoreDocs)) + Cardinality(NotPassed(scoreVals))
        /\ Len(scoreOut.all_recommendations) = Cardinality(MissingTypes(scoreDocs))

\* scored with one mandatory type present, one missing, and a pending validation
C5_Witness ==
    /\ Scored
    /\ HasType(scoreDocs, "national_id")
    /\ ~HasType(scoreDocs, "bank_statement")
    /\ \E i \in 1..Len(scoreVals) : scoreVals[i].status = "pending"
    /\ \E i \in 1..Len(scoreVals) : scoreVals[i].status = "passed"

(***************************************************************************)
(* Claims about the anomaly detector (SpecAnomaly, SpecRate)               *)
(***************************************************************************)
LastFailed == auditRet.logged /\ auditRet.entry.status = "failure"

\* the window of the failure counter of the customer of the last call
LastFailureWindow == win[FailureKey(auditRet.entry.customer_id)]

\* the window of the rate counter of the event type of the last call
LastRateWindow == win[RateKey(auditRet.entry.event_type)]

\* the repeated-failure anomalies the last call fired
LastRepeatedFailures ==
    {i \in 1..Len(auditRet.anomalies) : auditRet.anomalies[i].kind = "repeated_failure"}

\* C7: with the cache available and the counter absent at the first of them, of
\* six failure events of one subject logged within an hour the first five fire
\* no repeated-failure anomaly and the sixth fires exactly one (for that
\* subject); other events in between do not count.
C7_SixthFailureFires ==
    (LastFailed /\ LastFailureWindow.fresh) =>
        /\ LastFailureWindow.n <= 5 => LastRepeatedFailures = {}
        /\ LastFailureWindow.n = 6 =>
              /\ Cardinality(LastRepeatedFailures) = 1
              /\ \A i \in LastRepeatedFailures :
                    auditRet.anomalies[i].about = auditRet.entry.customer_id

\* the sixth failure of c1 within the hour has fired, time has passed since the
\* first, and a failure of c2 was logged as well
C7_Witness ==
    /\ LastFailed
    /\ auditRet.entry.customer_id = "c1"
    /\ LastFailureWindow.fresh
    /\ LastFailureWindow.n = 6
    /\ LastFailureWindow.first < auditRet.entry.occurred_at
    /\ LastRepeatedFailures # {}
    /\ FailureKey("c2") \in DOMAIN win

\* C8: the failure counter expires one hour after the first increment of its
\* window: the count a failure event reads is the number of failures in the
\* window its first increment opened (1 again once that hour is over), and the
\* anomaly fires only for more than five failures inside one such window.
C8_FailureWindowFixed ==
    LastFailed =>
        /\ auditRet.failures = LastFailureWindow.n
        /\ LastRepeatedFailures # {} => LastFailureWindow.n > FailureThreshold

\* C9: the rate counter counts every event of its type, expires 60 seconds
\* after the first increment of its window, and the event-rate anomaly fires
\* exactly for the events beyond the 100th inside one such window.
C9_RateWindowFixed ==
    auditRet.logged =>
        /\ auditRet.rate = LastRateWindow.n
        /\ (\E i \in 1..Len(auditRet.anomalies) : auditRet.anomalies[i].kind = "event_rate")
               <=> LastRateWindow.n > RateThreshold

(***************************************************************************)
(* Claims about the audit store (SpecAudit)                                *)
(***************************************************************************)
Stored(entry) ==
    \/ \E i \in 1..Len(audit_logs) : audit_logs[i] = entry
    \/ \E i \in 1..Len(memory_logs) : memory_logs[i] = entry

\* C10: every log_event call that returns logged leaves its entry in the audit
\* store, in the durable tier or in the in-memory fallback.
C10_LoggedIsStored ==
    auditRet.logged => Stored(auditRet.entry)

(***************************************************************************)
(* Claims about the summary store (SpecSummary, SpecConcurrent)            *)
(***************************************************************************)
DurableSummaries(cust) ==
    {i \in 1..Len(compliance_summaries) : compliance_summaries[i].customer_id = cust}

MemorySummaries(w, cust) ==
    {k \in DOMAIN memory_storage[w] : memory_storage[w][k].customer_id = cust}

\* C1: after any sequence of generate_summary calls each tier of the store
\* (table compliance_summaries, memory_storage of an agent in the fallback)
\* holds at most one Summary record per subject.
C1_AtMostOneSummary ==
    \A cust \in Customers :
        /\ Cardinality(DurableSummaries(cust)) <= 1
        /\ \A w \in Workers : Cardinality(MemorySummaries(w, cust)) <= 1

\* C2: when concurrent generate_summary calls for one subject have all
\* returned, at most one Summary row exists for the subject and the write of
\* every call that reached the store was applied (inserted or updated), none
\* lost to a failed insert.
C2_UpsertSerialized ==
    AllIdle =>
        /\ \A cust \in Customers : Cardinality(DurableSummaries(cust)) <= 1
        /\ \A w \in Workers : call[w].outcome # "failed"

(***************************************************************************)
(* Claims about the audit agent and its cache (SpecCache, SpecAnomaly,     *)
(* SpecAuditOps)                                                           *)
(***************************************************************************)
\* C11: a log_event call made while the cache is unavailable (no client since
\* start-up, or the server not answering) fires no anomaly, publishes nothing,
\* leaves the counters alone, returns logged, and writes its entry as it does
\* with the cache available: to the table when the session answers, to
\* memory_logs when that list exists.
C11_CacheUnavailable ==
    [][(nAudit' = nAudit + 1 /\ ~(auditRedis /\ redisUp)) =>
          /\ auditRet'.logged
          /\ auditRet'.anomalies = <<>>
          /\ mock_events' = mock_events
          /\ redis' = redis
          /\ (auditDb = "session" /\ dbUp) =>
                 audit_logs' = Append(audit_logs, auditRet'.entry)
          /\ auditDb = "memory" =>
                 memory_logs' = Append(memory_logs, auditRet'.entry)]_vars

\* six failures of c1 are stored, the server stopped answering during the run:
\* the failure counter stayed at 5 and no anomaly was published
C11_Witness ==
    /\ auditRedis
    /\ ~redisUp
    /\ auditRet.logged
    /\ auditRet.entry.status = "failure"
    /\ Len(audit_logs) = 6
    /\ \A i \in 1..Len(audit_logs) : audit_logs[i].status = "failure"
    /\ RedisGet(redis, FailureKey("c1")) = 5
    /\ mock_events = <<>>

\* the alert entries readable in the alert store
LiveAlerts == {k \in DOMAIN redis : k[1] = "audit:alert"}

\* the audit-anomaly events published less than AlertTTL ago
RecentAnomalies ==
    {i \in 1..Len(mock_events) :
        /\ mock_events[i].topic = "audit-anomaly"
        /\ now < mock_events[i].value.detected_at + AlertTTL}

\* C12: every fired anomaly is published as one audit-anomaly event and has its
\* own alert entry for one hour: the alert store holds as many entries as
\* anomalies were published during the last hour.
C12_AlertPerAnomaly ==
    Cardinality(LiveAlerts) = Cardinality(RecentAnomalies)

IsPrefix(s, t) == Len(s) <= Len(t) /\ SubSeq(t, 1, Len(s)) = s

\* C13: every step of the audit agent (log_event, get_audit_report,
\* get_compliance_metrics, monitor_events), with the database up or down,
\* leaves the stored audit events as a prefix of what is stored afterwards.
C13_AppendOnly ==
    [][IsPrefix(audit_logs, audit_logs') /\ IsPrefix(memory_logs, memory_logs')]_vars

\* two events are stored, a report covering the first one and the metrics were
\* read, and time has passed
C13_Witness ==
    /\ Len(audit_logs) = 2
    /\ auditReport # NoReport
    /\ auditReport.total_events = 1
    /\ auditMetrics # NoMetrics
    /\ now > 0

(***************************************************************************)
(* Claims about the summary cache (SpecSummary)                            *)
(***************************************************************************)
\* the step is the return of a generate_summary call that computed its result
SummaryReturns(w) == pc[w] = "finish" /\ pc'[w] = "idle"

\* the step is the start of a generate_summary call
SummaryCalled == nSum' = nSum + 1

\* C14: with a working cache, a generate_summary call that misses reads the
\* subject's documents and validations from the store, and when it returns it
\* leaves its result under summary:{subject} for 3600 seconds; a call that
\* finds the key returns the cached result at once and changes neither the
\* store nor the bus nor the cache.
C14_CacheMissThenHit ==
    [][/\ \A w \in Workers :
             (SummaryReturns(w) /\ sumRedis /\ redisUp) =>
                 /\ sumRet'[w] = call[w].result
                 /\ RedisHas(redis', SummaryKey(sumRet'[w].customer_id))
                 /\ redis'[SummaryKey(sumRet'[w].customer_id)]
                        = [val |-> sumRet'[w], exp |-> now + 3600]
       /\ (SummaryCalled /\ sumRedis /\ redisUp) =>
             \E w \in Workers, cust \in Customers :
                 IF RedisHas(redis, SummaryKey(cust))
                 THEN /\ sumRet' = [sumRet EXCEPT ![w] = redis[SummaryKey(cust)].val]
                      /\ pc' = pc
                      /\ UNCHANGED <<redis, mock_events, documents, kyc_validations, chroma,
                                     compliance_summaries, memory_storage>>
                 ELSE /\ pc'[w] = "store"
                      /\ call'[w].result.customer_id = cust
                      /\ call'[w].result.total_documents
                             = Len(GetCustomerDocuments(w, cust))
                      /\ call'[w].result.validated_documents
                             = Len(GetValidationResults(w, cust))]_vars

\* the first call (w1) read one document of c1 and published; the second (w2),
\* later but inside the hour, was served from the cache with the same result
C14_Witness ==
    /\ nSum = 2
    /\ call["w1"].outcome \in {"inserted", "updated"}
    /\ call["w2"].outcome = "cached"
    /\ sumRet["w2"] = sumRet["w1"]
    /\ sumRet["w1"].total_documents = 1
    /\ sumRet["w1"].generated_at < now
    /\ Len(mock_events) = 1
    /\ Len(compliance_summaries) = 1

(***************************************************************************)
(* Claims about store failover (SpecFailover)                              *)
(***************************************************************************)
\* the last validate_kyc call returned a Validation
ReturnedValidation == kycRet.value # NoValidation.value /\ kycRet.value # DocumentNotFound

\* the last process_document call returned a result
ReturnedDocument == docRet.value # NoDocument.value /\ docRet.value.status = "success"

InTable(rows, id) == \E i \in 1..Len(rows) : rows[i].id = id

\* C15: with sessions obtained at start-up, every record a call wrote, also
\* during an outage of the database, is held afterwards where a later read
\* finds it: a Validation in the table or else in the in-memory tier of the
\* agent, a Document in the table, the in-memory tier or (the copy that
\* _retrieve_document falls back to) ChromaDB.
C15_OutageServedByMemory ==
    /\ ReturnedValidation =>
          \/ InTable(kyc_validations, kycRet.value.validation_id)
          \/ kycRet.value.validation_id \in DOMAIN kycMemory
    /\ ReturnedDocument =>
          \/ InTable(documents, docRet.value.document_id)
          \/ docRet.value.document_id \in DOMAIN docMemory
          \/ InTable(chroma, docRet.value.document_id)

\* C16: once an attempt on the database has failed, the next attempt is made
\* no sooner than the re-probe interval (30 seconds) later: no call goes to the
\* database inline while the store is degraded.
C16_ReprobeInterval == ~durable.early

\* no attempt on the database is known to have failed for ProbeInterval
Probed == durable.failed_at = -1 \/ now >= durable.failed_at + ProbeInterval

\* C17: with the database up again and the re-probe interval over, every new
\* write of process_document and validate_kyc made through a session lands in
\* the table, whatever failed before.
C17_WritesReturn ==
    [][/\ (nIngest' = nIngest + 1 /\ docDb = "session" /\ dbUp /\ Probed
              /\ docRet'.value.status = "success") =>
                 InTable(documents', docRet'.value.document_id)
       /\ (nValidate' = nValidate + 1 /\ kycDb = "session" /\ dbUp /\ Probed
              /\ kycRet'.value # DocumentNotFound) =>
                 InTable(kyc_validations', kycRet'.value.validation_id)]_vars

(***************************************************************************)
(* Claims about ingestion and validation (SpecPipeline)                    *)
(***************************************************************************)
\* a store tier that validate_kyc or generate_summary reads holds the document
HeldIn(rows, entries, mem, id) ==
    \/ InTable(rows, id)
    \/ InTable(entries, id)
    \/ id \in DOMAIN mem

HeldDocument(id) == HeldIn(documents, chroma, docMemory, id)

\* the messages a step appended to the bus buffer
Published == SubSeq(mock_events', Len(mock_events) + 1, Len(mock_events'))

Topics(msgs) == [i \in 1..Len(msgs) |-> msgs[i].topic]

\* C18: a validate_kyc call for a document id that no tier holds and that has
\* no cached validation returns the not-found error and leaves tables,
\* ChromaDB, in-memory tiers, cache and bus as they were.
C18_NotFoundChangesNothing ==
    [][(nValidate' = nValidate + 1
           /\ ~HeldDocument(kycRet'.document_id)
           /\ ~RedisHas(redis, KycKey(kycRet'.document_id))) =>
          /\ kycRet'.value = [status |-> "error", message |-> "Document not found"]
          /\ UNCHANGED <<redis, mock_events, documents, chroma, docMemory,
                         kyc_validations, kycMemory, compliance_summaries>>]_vars

\* a document was ingested and announced, then an id that does not exist was
\* validated for c2: error returned, nothing but the two ingest messages on the bus
C18_Witness ==
    /\ nValidate = 1
    /\ kycRet.document_id = UnknownId
    /\ kycRet.customer_id = "c2"
    /\ kycRet.value = DocumentNotFound
    /\ Len(chroma) = 1
    /\ Len(mock_events) = 2
    /\ kyc_validations = <<>>
    /\ kycRedis

\* the call computed a Validation (no cached one was returned, the document was found)
ValidationProduced ==
    /\ nValidate' = nValidate + 1
    /\ ~(kycRedis /\ redisUp /\ RedisHas(redis, KycKey(kycRet'.document_id)))
    /\ kycRet'.value # DocumentNotFound

\* every compliance-summary-requested message on the bus directly follows the
\* kyc-validation-completed message of the same Validation, whose status is passed
RequestedOnlyWhenPassed(buf) ==
    \A i \in 1..Len(buf) :
        buf[i].topic = "compliance-summary-requested" =>
            /\ i > 1
            /\ buf[i - 1].topic = "kyc-validation-completed"
            /\ buf[i - 1].value.validation_id = buf[i].value.validation_id
            /\ buf[i - 1].value.status = "passed"

\* C19: a validate_kyc call that produces a Validation publishes exactly one
\* kyc-validation-completed for it, followed by compliance-summary-requested
\* for the subject exactly when the status is passed; nothing else is
\* published, and no compliance-summary-requested exists for a Validation
\* that failed or is pending.
C19_ValidationEvents ==
    [][/\ ValidationProduced =>
             /\ IsPrefix(mock_events, mock_events')
             /\ Topics(Published) =
                    (IF kycRet'.value.validation_status = "passed"
                     THEN <<"kyc-validation-completed", "compliance-summary-requested">>
                     ELSE <<"kyc-validation-completed">>)
             /\ Published[1].key = kycRet'.value.document_id
             /\ Published[1].value.validation_id = kycRet'.value.validation_id
             /\ Published[1].value.status = kycRet'.value.validation_status
             /\ Len(Published) = 2 =>
                    /\ Published[2].key = kycRet'.customer_id
                    /\ Published[2].value.customer_id = kycRet'.customer_id
                    /\ Published[2].value.validation_id = kycRet'.value.validation_id
       /\ RequestedOnlyWhenPassed(mock_events')]_vars

\* a document was ingested (two messages), then its Validation passed: the
\* bus holds kyc-validation-completed and then compliance-summary-requested
\* keyed by the subject
C19_Witness ==
    /\ nValidate = 1
    /\ ReturnedValidation
    /\ kycRet.value.validation_status = "passed"
    /\ Len(mock_events) = 4
    /\ mock_events[3].topic = "kyc-validation-completed"
    /\ mock_events[4].topic = "compliance-summary-requested"
    /\ mock_events[4].key = kycRet.customer_id

\* the paths of Files that do not exist
MissingPaths == {f.path : f \in {g \in Files : ~g.exists}}

\* every document-processed message is directly followed by the
\* kyc-validation-requested message of the same document
IngestPairsInOrder(buf) ==
    \A i \in 1..Len(buf) :
        buf[i].topic = "document-processed" =>
            /\ i < Len(buf)
            /\ buf[i + 1].topic = "kyc-validation-requested"
            /\ buf[i + 1].key = buf[i].key

\* C20: a process_document call that returns success leaves the Document
\* where validate_kyc finds it and appends document-processed and then
\* kyc-validation-requested, both keyed by the new document id; a call for a
\* file that does not exist changes neither stores nor cache nor bus.
C20_IngestEvents ==
    [][/\ (nIngest' = nIngest + 1 /\ docRet'.value.status = "success") =>
             /\ HeldIn(documents', chroma', docMemory', docRet'.value.document_id)
             /\ ~HeldDocument(docRet'.value.document_id)
             /\ IsPrefix(mock_events, mock_events')
             /\ Topics(Published) = <<"document-processed", "kyc-validation-requested">>
             /\ Published[1].key = docRet'.value.document_id
             /\ Published[2].key = docRet'.value.document_id
       /\ (nIngest' = nIngest + 1 /\ docRet'.path \in MissingPaths) =>
             /\ docRet'.value = [status |-> "error", message |-> "File not found"]
             /\ UNCHANGED <<redis, mock_events, documents, chroma, docMemory>>
       /\ IngestPairsInOrder(mock_events')]_vars

\* cr.txt was ingested into the table and announced, then a missing file was
\* given: error returned, the bus still holds the two messages in order
C20_Witness ==
    /\ nIngest = 2
    /\ docRet.path = "gone.txt"
    /\ docRet.value = FileNotFound
    /\ Len(documents) = 1
    /\ Len(mock_events) = 2
    /\ mock_events[1].topic = "document-processed"
    /\ mock_events[2].topic = "kyc-validation-requested"
    /\ mock_events[1].key = documents[1].id

(***************************************************************************)
(* Claims about failures of the dependencies                               *)
(***************************************************************************)
\* the id process_document gives to the document of the call that just returned
NewDocumentId == DocumentId(docRet'.path, docRet'.customer_id, now, nIngest)

\* a process_document call that found its file and no cached result
IngestComputed ==
    /\ nIngest' = nIngest + 1
    /\ docRet'.path \notin MissingPaths
    /\ ~(docRedis /\ redisUp /\ RedisHas(redis, DocKey(NewDocumentId)))

\* C21: however the database was unavailable at start-up (get_database_session
\* raised, or returned no session without raising), a process_document call
\* that computed a result returns it with status success, has populated the
\* cache where a cache is available, and has published its two messages; a
\* validate_kyc call that computed a Validation returns it and has published
\* kyc-validation-completed.
C21_StoreFailureNeverAborts ==
    [][/\ IngestComputed =>
             /\ docRet'.value.status = "success"
             /\ docRet'.value.document_id = NewDocumentId
             /\ (docRedis /\ redisUp) => RedisHas(redis', DocKey(NewDocumentId))
             /\ Topics(Published) = <<"document-processed", "kyc-validation-requested">>
       /\ ValidationProduced =>
             /\ kycRet'.value.validation_id = ValidationId(kycRet'.document_id, now, nValidate)
             /\ (kycRedis /\ redisUp) => RedisHas(redis', KycKey(kycRet'.document_id))
             /\ Published # <<>>
             /\ Published[1].topic = "kyc-validation-completed"]_vars

(***************************************************************************)
(* Claims about the workflow (SpecWorkflow)                                *)
(***************************************************************************)
\* the step is a generate_summary call answered from the cache
SummaryFromCache == SummaryCalled /\ pc' = pc

\* the counts and the score of a summary are those of the subject's records
\* as agent instance w reads them now
ReflectsStore(w, summary) ==
    LET docs == GetCustomerDocuments(w, Subject)
        vals == GetValidationResults(w, Subject)
    IN /\ summary.total_documents = Len(docs)
       /\ summary.validated_documents = Len(vals)
       /\ summary.overall_compliance_score = calculate_scores(docs, vals).overall_score

\* C25: with sessions obtained at start-up, whatever was ingested or validated
\* for the subject since its last summary, and however short the time since
\* then, the result a
\* generate_summary call returns has the counts and the score of the records
\* the store holds at the call, and the row of the subject, where the agent
\* writes one, has the same count of documents.
C25_Resummarize ==
    [][/\ (SummaryFromCache /\ docDb = "session") =>
             \A w \in Workers : ReflectsStore(w, redis[SummaryKey(Subject)].val)
       /\ \A w \in Workers :
             (SummaryReturns(w) /\ docDb = "session") =>
                 /\ ReflectsStore(w, sumRet'[w])
                 /\ call[w].outcome \in {"inserted", "updated"} =>
                        ExistingSummary(compliance_summaries', Subject).total_documents
                            = sumRet'[w].total_documents]_vars

\* the live cache entries of one kind: keys <<kind, id>>
Cached(kind) == {k \in DOMAIN redis : k[1] = kind}

\* some row of the table has the same values in the given columns
RowWith(rows, fields, rec) ==
    \E i \in 1..Len(rows) : \A f \in fields : rows[i][f] = rec[f]

\* some in-memory tier of the summary agent holds the summary
InMemorySummary(s) ==
    \E w \in Workers :
        s.summary_id \in DOMAIN memory_storage[w] /\ memory_storage[w][s.summary_id] = s

\* C24: with sessions obtained at start-up, every
\* live cache entry of a document, a validation or a summary has its record in
\* the store: a row with the same identifier and the same values in the
\* columns the agent writes, or the same entry in an in-memory tier.
C24_CacheWithinStore ==
    (docDb = "session" /\ \A w \in Workers : sumDb[w] = "session") =>
    /\ \A k \in Cached("doc") :
          LET d == redis[k].val
          IN \/ RowWith(documents, {"id", "customer_id", "filename", "extracted_text"},
                        [id |-> d.document_id, customer_id |-> d.customer_id,
                         filename |-> d.filename, extracted_text |-> d.extracted_text])
             \/ (d.document_id \in DOMAIN docMemory /\ docMemory[d.document_id] = d)
    /\ \A k \in Cached("kyc") :
          LET v == redis[k].val
          IN \/ RowWith(kyc_validations, DOMAIN KycRow(v), KycRow(v))
             \/ (v.validation_id \in DOMAIN kycMemory /\ kycMemory[v.validation_id] = v)
    /\ \A k \in Cached("summary") :
          LET s == redis[k].val
          IN \/ RowWith(compliance_summaries,
                        {"id", "customer_id", "total_documents", "compliant_documents",
                         "overall_compliance_score", "compliance_status"},
                        [id |-> s.summary_id, customer_id |-> s.customer_id,
                         total_documents |-> s.total_documents,
                         compliant_documents |-> s.compliant_documents,
                         overall_compliance_score |-> s.overall_compliance_score,
                         compliance_status |-> s.compliance_status])
             \/ InMemorySummary(s)

(***************************************************************************)
(* Claims about the cache outage (SpecCacheOutage)                         *)
(***************************************************************************)
\* the Redis client exists and the server does not answer
CacheDown == ~redisUp

\* C23: with the Redis server not answering, a call behaves as on a miss of a
\* working cache.  process_document computes the result, writes ChromaDB and
\* the store of its start-up mode and publishes; validate_kyc fetches the
\* document, computes a new Validation, stores and publishes it, also when
\* the server still holds an entry for the document; generate_summary gathers
\* the subject's records, stores, publishes and returns the computed result.
\* None of them changes what the server holds.
C23_CacheDownIsMiss ==
    [][/\ (CacheDown /\ docRedis /\ nIngest' = nIngest + 1 /\ docDb # "none") =>
             /\ docRet'.value.status = "success"
             /\ docRet'.value.document_id = NewDocumentId
             /\ InTable(chroma', NewDocumentId)
             /\ docDb = "session" => InTable(documents', NewDocumentId)
             /\ docDb = "memory" => NewDocumentId \in DOMAIN docMemory'
             /\ Topics(Published) = <<"document-processed", "kyc-validation-requested">>
             /\ redis' = redis
       /\ (CacheDown /\ kycRedis /\ nValidate' = nValidate + 1) =>
             /\ kycRet'.value.validation_id
                    = ValidationId(kycRet'.document_id, now, nValidate)
             /\ kycRet'.value.validation_status
                    = RuleCheck(RetrieveDocument(kycRet'.document_id)).status
             /\ kycDb = "session" => InTable(kyc_validations', kycRet'.value.validation_id)
             /\ kycDb = "memory" => kycRet'.value.validation_id \in DOMAIN kycMemory'
             /\ Published # <<>>
             /\ Published[1].topic = "kyc-validation-completed"
             /\ Published[1].value.validation_id = kycRet'.value.validation_id
             /\ redis' = redis
       /\ (CacheDown /\ sumRedis /\ SummaryCalled) =>
             /\ pc'[Summarizer] = "store"
             /\ ReflectsStore(Summarizer, call'[Summarizer].result)
             /\ redis' = redis
       /\ (CacheDown /\ sumRedis /\ SummaryReturns(Summarizer)) =>
             /\ sumRet'[Summarizer] = call[Summarizer].result
             /\ Topics(Published) = <<"compliance-summary-generated">>
             /\ redis' = redis]_vars

\* the server holds the subject's first summary (no documents) and a cached
\* validation; while it did not answer, the document was validated again
\* under a new id and the subject summarized again, with the document counted
C23_Witness ==
    /\ CacheDown
    /\ sumRedis
    /\ RedisHas(redis, SummaryKey(Subject))
    /\ redis[SummaryKey(Subject)].val.total_documents = 0
    /\ sumRet[Summarizer].total_documents = 1
    /\ pc[Summarizer] = "idle"
    /\ nValidate = 2
    /\ RedisHas(redis, KycKey(kycRet.document_id))
    /\ redis[KycKey(kycRet.document_id)].val.validation_id # kycRet.value.validation_id

(***************************************************************************)
(* Claims about the failing bus (SpecBus)                                  *)
(***************************************************************************)
\* the step is the return of a generate_summary call that was not cached
SummaryFinished(w) == pc[w] = "finish" /\ pc'[w] = "idle"

StoredValidationIds ==
    {kyc_validations[i].id : i \in 1..Len(kyc_validations)} \cup DOMAIN kycMemory

\* C26: every validate_kyc call on a document the store holds adds one
\* Validation record under an identifier no stored record has, and leaves the
\* earlier records as they were.
C26_RevalidationKeepsHistory ==
    [][(nValidate' = nValidate + 1
           /\ kycDb # "none"
           /\ HeldDocument(kycRet'.document_id)) =>
          /\ kycRet'.value # DocumentNotFound
          /\ kycRet'.value.validation_id \notin StoredValidationIds
          /\ kycDb = "session" =>
                /\ Len(kyc_validations') = Len(kyc_validations) + 1
                /\ SubSeq(kyc_validations', 1, Len(kyc_validations)) = kyc_validations
                /\ kyc_validations'[Len(kyc_validations')].id =
                       kycRet'.value.validation_id
                /\ kyc_validations'[Len(kyc_validations')].document_id =
                       kycRet'.document_id
          /\ kycDb = "memory" =>
                /\ DOMAIN kycMemory' =
                       DOMAIN kycMemory \cup {kycRet'.value.validation_id}
                /\ \A id \in DOMAIN kycMemory : kycMemory'[id] = kycMemory[id]
                /\ kycMemory'[kycRet'.value.validation_id].document_id =
                       kycRet'.document_id]_vars

(***************************************************************************)
(* Claims about concurrent audit writes (SpecWriters)                      *)
(***************************************************************************)
\* the callers whose increment of the failure counter went through
Counted == {a \in AuditWriters : writers[a].failures > 0}

\* the callers that incremented observed the distinct values 1..k, and the
\* counter stands at k
NoUndercount ==
    /\ {writers[a].failures : a \in Counted} = 1..Cardinality(Counted)
    /\ Counted # {} =>
          /\ RedisHas(redis, FailureKey(Subject))
          /\ redis[FailureKey(Subject)].val = Cardinality(Counted)

\* no call stands between its increment and its expire
NoneBetween == \A a \in AuditWriters : writers[a].pc # "expire"

\* the failure counter, where it exists, has an expiry
CounterExpires ==
    RedisHas(redis, FailureKey(Subject)) => redis[FailureKey(Subject)].exp # NoExpiry

\* C27: concurrent log_event calls with failure status for one subject observe
\* the counter values 1..k, each once; a call whose cache answers reports the
\* repeated-failure anomaly exactly when it observed more than 5; and once no
\* call stands between its two commands, the counter has an expiry.
C27_AtomicCounter ==
    [][/\ NoUndercount'
       /\ \A a \in AuditWriters :
             (writers[a].pc = "expire" /\ writers'[a].pc = "done" /\ redisUp) =>
                 (writers'[a].anomalies # <<>> <=> writers[a].failures > FailureThreshold)
       /\ NoneBetween' => CounterExpires']_vars

(***************************************************************************)
(* Claims about the inline calls to the language model (SpecInline)        *)
(***************************************************************************)
\* C28: an operation that waits for the language model eventually stops
\* waiting (answer or fallback), whatever the service does.
C28_NoIndefiniteBlock ==
    \A op \in InlineCallers : (asked[op] = "waiting") ~> (asked[op] # "waiting")

(***************************************************************************)
(* Claims about the audit report (SpecReport)                              *)
(***************************************************************************)
\* the AuditEvents the store holds: the table, or memory_logs where the agent
\* started without database
StoredAuditEvents ==
    IF auditDb = "session" THEN audit_logs
    ELSE IF auditDb = "memory" THEN memory_logs
    ELSE <<>>

\* the stored events of the period [start, end] that match the subject filter
Covered(report) ==
    {i \in 1..Len(StoredAuditEvents) :
        /\ report.period.start <= StoredAuditEvents[i].occurred_at
        /\ StoredAuditEvents[i].occurred_at <= report.period.end
        /\ (report.customer_id = NoFilter
               \/ StoredAuditEvents[i].customer_id = report.customer_id)}

\* C29: a report counts exactly the stored events of its range (bounds
\* included) that match its subject filter; the counts per event type and per
\* agent each sum to total_events; success, failure and warning count the
\* covered events of that status.
C29_ReportCoversRange ==
    [][auditReport' # auditReport =>
          LET report == auditReport'
          IN /\ report.total_events = Cardinality(Covered(report))
             /\ SumOver(report.event_breakdown, DOMAIN report.event_breakdown) =
                    report.total_events
             /\ SumOver(report.agent_activity, DOMAIN report.agent_activity) =
                    report.total_events
             /\ \A ty \in DOMAIN report.event_breakdown :
                    report.event_breakdown[ty] =
                        Cardinality({i \in Covered(report) :
                                        StoredAuditEvents[i].event_type = ty})
             /\ \A ag \in DOMAIN report.agent_activity :
                    report.agent_activity[ag] =
                        Cardinality({i \in Covered(report) :
                                        StoredAuditEvents[i].agent_name = ag})
             /\ DOMAIN report.status_summary = {"success", "failure", "warning"}
             /\ \A s \in DOMAIN report.status_summary :
                    report.status_summary[s] =
                        Cardinality({i \in Covered(report) :
                                        StoredAuditEvents[i].status = s})]_vars

\* two events are stored, at 1500 (c2, status error) and at 3000 (c1, failure);
\* the report for c1 over [1500, 3000] counts the one at the upper bound
C29_Witness ==
    /\ auditReport # NoReport
    /\ auditReport.customer_id = "c1"
    /\ auditReport.period = [start |-> 1500, end |-> 3000]
    /\ auditReport.total_events = 1
    /\ auditReport.status_summary["failure"] = 1
    /\ Len(audit_logs) = 2
    /\ audit_logs[1].occurred_at = 1500
    /\ audit_logs[1].status = "error"
    /\ audit_logs[2].occurred_at = 3000
    /\ audit_logs[2].customer_id = "c1"

(***************************************************************************)
(* Claims about the type a document is validated as (SpecPipeline)         *)
(***************************************************************************)
\* the type process_document classified the document as: the one it wrote to
\* the ChromaDB metadata, which every start-up mode writes
IngestedType(id) == WithId(chroma, id)[1].document_type

\* C30: a validate_kyc call that computes a Validation validates the document
\* as the type it was classified as at ingestion, with the rule check of that
\* type; the generic pending result goes to documents classified unknown or
\* of a type without a check of its own.
C30_ValidatedAsIngested ==
    [][ValidationProduced =>
          LET type == IngestedType(kycRet'.document_id)
              held == WithId(chroma, kycRet'.document_id)[1]
          IN /\ kycRet'.value.document_type = type
             /\ kycRet'.value.validation_status =
                    RuleCheck([type |-> type, text |-> held.text]).status
             /\ kycRet'.value.validation_score =
                    RuleCheck([type |-> type, text |-> held.text]).score]_vars

(***************************************************************************)
(* Claims about the ranges of the scores (SpecRules)                       *)
(***************************************************************************)
\* a float field whose value lies in [0, 1]
InUnit(r) == r[2] > 0 /\ 0 <= r[1] /\ r[1] <= r[2]

\* C31: the Validation that _perform_validation returns has a status among
\* pending, passed, failed and a score in [0, 1], and the overall score that
\* _calculate_scores derives from it lies in [0, 1].
C31_ScoresInUnit ==
    /\ ruleOut # NoScore =>
          /\ ruleOut.validation_status \in ValStatuses
          /\ InUnit(ruleOut.validation_score)
    /\ scoreOut # NoScore => InUnit(scoreOut.overall_score)

\* a bank statement with account number, IBAN, currency and bank name scores
\* 1.0 and passes; compliant and without earlier validation it is scored 1.0
C31_Witness ==
    /\ ruleIn.type = "bank_statement"
    /\ ruleOut # NoScore
    /\ ruleOut.validation_status = "passed"
    /\ RatEq(ruleOut.validation_score, <<1, 1>>)
    /\ scoreOut # NoScore
    /\ Len(scoreVals) = 1
    /\ RatEq(scoreOut.overall_score, <<1, 1>>)

(***************************************************************************)
(* Claims about the chat agent                                             *)
(***************************************************************************)
\* the chat-interaction events of a session: its finished chat calls, in order
Exchanges(events, session_id) ==
    SelectSeq(events, LAMBDA e : e.topic = "chat-interaction" /\ e.key = session_id)

QueriesOf(history) == [i \in 1..Len(history) |-> history[i].query]

\* what a history read at time t must be, given the finished chat calls
WithinLifetime(events, session_id, history, t) ==
    LET done == Exchanges(events, session_id)
    IN IF done = <<>>
       THEN history = <<>>
       ELSE IF t > done[Len(done)].value.timestamp + ChatTTL
       THEN history = <<>>
       ELSE QueriesOf(history) = [i \in 1..Len(done) |-> done[i].value.query]

\* the step is get_session_summary of the session
SummaryRead(session_id) ==
    /\ chatRet' # chatRet
    /\ chatRet'.kind = "summary"
    /\ chatRet'.session_id = session_id

\* the step is the history read of a chat call by c
ChatRead(c) == chatters[c].pc = "idle" /\ chatters'[c].pc = "load"

\* C32: with the Redis client there and chat calls made one at a time, the
\* history read by a chat or get_session_summary call is empty when the session's last chat call is more
\* than two hours old, and otherwise is the sequence of all earlier exchanges
\* of the session in call order.
C32_TwoHourLifetime ==
    [][ /\ \A s \in ChatSessions :
              (chatRedis /\ SummaryRead(s))
                  => WithinLifetime(mock_events, s, chatRet'.history, now)
        /\ \A c \in ChatCallers :
              (chatRedis /\ ChatRead(c))
                  => WithinLifetime(mock_events, chatters'[c].session_id,
                                            chatters'[c].read, now) ]_vars

\* C32 inside the lifetime only: the history read is the sequence of all
\* earlier exchanges
C32_InsideLifetime ==
    [][ \A s \in ChatSessions :
            (/\ SummaryRead(s)
             /\ Exchanges(mock_events, s) # <<>>
             /\ now <= Exchanges(mock_events, s)[Len(Exchanges(mock_events, s))].value.timestamp
                         + ChatTTL)
            => WithinLifetime(mock_events, s, chatRet'.history, now) ]_vars

\* C38: with the Redis client there, once no chat call is under way, the
\* history of a session holds one entry for each chat call made on it, and
\* get_session_summary reports that number as total_queries.
C38_NoExchangeLost ==
    \A s \in ChatSessions :
        (chatRedis /\ NoneChatting) =>
            /\ Len(GetConversationHistory(s).val) = Len(Exchanges(mock_events, s))
            /\ (chatRet.kind = "summary" /\ chatRet.session_id = s /\ nChat >= 1)
                   => chatRet.total_queries = nChat

\* C38 for chat calls made one at a time
C38_SequentialKept ==
    \A s \in ChatSessions :
        NoneChatting =>
            QueriesOf(GetConversationHistory(s).val)
                = [i \in 1..Len(Exchanges(mock_events, s)) |->
                       Exchanges(mock_events, s)[i].value.query]

(***************************************************************************)
(* Claims about what summarize counts and stores (SpecWorkflow)            *)
(***************************************************************************)
\* the document-processed events of a subject: its ingest results, in order
IngestedOf(events, cust) ==
    SelectSeq(events, LAMBDA e : e.topic = "document-processed" /\ e.value.customer_id = cust)

\* number of the subject's ingested documents whose ingest result was compliant
IngestedCompliant(events, cust) ==
    Len(SelectSeq(IngestedOf(events, cust), LAMBDA e : e.value.sama_compliant))

\* the step is a generate_summary call of w that computes its result
SummaryComputed(w) == pc[w] = "idle" /\ pc'[w] = "store"

\* every validation stored for the subject passed with score 1
AllPassedFully(cust) ==
    \A i \in 1..Len(kyc_validations) :
        kyc_validations[i].customer_id = cust =>
            /\ kyc_validations[i].validation_status = "passed"
            /\ kyc_validations[i].validation_score = <<1, 1>>

\* C33: the compliant-document count of a computed summary is the number of
\* the subject's ingested documents whose ingest result was compliant, and a
\* subject whose documents were all ingested compliant and whose validations
\* all passed with score 1 is given status compliant.
C33_CompliantCountMatchesIngest ==
    [][ SummaryComputed(Summarizer) =>
          LET result == call'[Summarizer].result
              n      == Len(IngestedOf(mock_events, Subject))
          IN /\ result.compliant_documents = IngestedCompliant(mock_events, Subject)
             /\ (/\ n >= 1
                 /\ IngestedCompliant(mock_events, Subject) = n
                 /\ AllPassedFully(Subject))
                    => result.compliance_status = "compliant" ]_vars

(***************************************************************************)
(* Claims about the stored Summary (SpecSummary)                           *)
(***************************************************************************)
\* the stored row carries the counts, score, status, issues and
\* recommendations of the result
RowAgrees(row, result) ==
    /\ row.total_documents = result.total_documents
    /\ row.validated_documents = result.validated_documents
    /\ row.compliant_documents = result.compliant_documents
    /\ row.overall_compliance_score = result.overall_compliance_score
    /\ row.compliance_status = result.compliance_status
    /\ row.issues_summary = result.issues
    /\ row.recommendations_summary = result.recommendations

\* the step is the commit of a generate_summary call of w that wrote the store
SummaryWritten(w) ==
    /\ pc[w] = "commit"
    /\ pc'[w] = "finish"
    /\ call'[w].outcome \in {"inserted", "updated"}

\* C34: after a generate_summary call has written the store, by insert or by
\* update in place, the stored Summary of the subject agrees with the result
\* of the call on document count, validated count, compliant count, overall
\* score, status, issues and recommendations.
C34_StoredAgreesWithResult ==
    [][ \A w \in Workers :
          SummaryWritten(w) =>
              RowAgrees(ExistingSummary(compliance_summaries', call[w].result.customer_id),
                        call[w].result) ]_vars

\* C34 without the validated count
C34_OtherFieldsAgree ==
    [][ \A w \in Workers :
          SummaryWritten(w) =>
              LET row == ExistingSummary(compliance_summaries', call[w].result.customer_id)
              IN RowAgrees([row EXCEPT !.validated_documents =
                                call[w].result.validated_documents], call[w].result) ]_vars

\* C35: when a generate_summary call that wrote the store returns, the
\* identifier in its result, in its compliance-summary-generated event and in
\* its cache entry is the identifier of the Summary stored for the subject.
C35_OneSummaryIdentifier ==
    [][ \A w \in Workers :
          (SummaryFinished(w) /\ call[w].outcome \in {"inserted", "updated"}) =>
              LET cust   == call[w].result.customer_id
                  stored == ExistingSummary(compliance_summaries, cust).id
              IN /\ sumRet'[w].summary_id = stored
                 /\ mock_events'[Len(mock_events')].value.summary_id = stored
                 /\ (sumRedis /\ redisUp)
                        => RedisGet(redis', SummaryKey(cust)).summary_id = stored ]_vars

\* C35 on first generation only
C35_FirstGeneration ==
    [][ \A w \in Workers :
          (SummaryFinished(w) /\ call[w].outcome = "inserted") =>
              LET cust   == call[w].result.customer_id
                  stored == ExistingSummary(compliance_summaries, cust).id
              IN /\ sumRet'[w].summary_id = stored
                 /\ mock_events'[Len(mock_events')].value.summary_id = stored
                 /\ (sumRedis /\ redisUp)
                        => RedisGet(redis', SummaryKey(cust)).summary_id = stored ]_vars

(***************************************************************************)
(* Claims about the subject of a Validation (SpecPipeline)                 *)
(***************************************************************************)
\* the step is a validate_kyc call that returned a Validation
ValidationReturned ==
    /\ nValidate' = nValidate + 1
    /\ kycRet'.value # DocumentNotFound

\* C36: a Validation returned by validate_kyc(document_id, customer_id)
\* carries the customer_id of the call that returned it.
C36_ResultNamesCaller ==
    [][ValidationReturned => kycRet'.value.customer_id = kycRet'.customer_id]_vars

\* C36 for the calls that compute their Validation
C36_ComputedNamesCaller ==
    [][ValidationProduced => kycRet'.value.customer_id = kycRet'.customer_id]_vars

\* the subject a document was ingested for: the one written to the ChromaDB
\* metadata, which every start-up mode writes
IngestedOwner(id) == WithId(chroma, id)[1].customer_id

\* C37: every stored Validation references the subject that owns its Document.
C37_StoredSubjectOwnsDocument ==
    /\ \A i \in 1..Len(kyc_validations) :
           kyc_validations[i].customer_id = IngestedOwner(kyc_validations[i].document_id)
    /\ \A k \in DOMAIN kycMemory :
           kycMemory[k].customer_id = IngestedOwner(kycMemory[k].document_id)

\* C37 for the calls whose customer_id is the owner of the document
C37_OwnCallsStoreOwner ==
    [][ (ValidationProduced /\ kycRet'.customer_id = IngestedOwner(kycRet'.document_id))
          => /\ \A i \in 1..Len(kyc_validations') :
                    i > Len(kyc_validations) =>
                        kyc_validations'[i].customer_id =
                            IngestedOwner(kyc_validations'[i].document_id)
             /\ \A k \in DOMAIN kycMemory' \ DOMAIN kycMemory :
                    kycMemory'[k].customer_id = IngestedOwner(kycMemory'[k].document_id) ]_vars

(***************************************************************************)
(* Claims about the success rate of get_compliance_metrics (SpecAuditOps)  *)
(***************************************************************************)
\* number of the stored events with the given status
LoggedWith(status) ==
    Len(SelectSeq(StoredAuditEvents, LAMBDA e : e.status = status))

\* every log_event call so far is on record and was made today
AllLoggedToday ==
    /\ auditDb # "none"
    /\ nAudit >= 1
    /\ Len(StoredAuditEvents) = nAudit
    /\ \A i \in 1..Len(StoredAuditEvents) :
           Today(StoredAuditEvents[i].occurred_at) = Today(now)

\* the step is get_compliance_metrics with the cache available
MetricsRead ==
    /\ auditMetrics = NoMetrics
    /\ auditMetrics' # NoMetrics
    /\ auditRedis
    /\ redisUp

\* C39: get_compliance_metrics, called with the cache available after
\* log_event calls made today, returns success_rate = successes / (successes
\* + failures) of those calls, and system_health "healthy" when every logged
\* event had status success.
C39_SuccessRateOfLoggedEvents ==
    [][ (MetricsRead /\ AllLoggedToday) =>
          LET s == LoggedWith("success")
              f == LoggedWith("failure")
          IN /\ (s + f > 0) => RatEq(auditMetrics'.success_rate, <<s, s + f>>)
             /\ (s = nAudit) => auditMetrics'.system_health = "healthy" ]_vars

\* what get_compliance_metrics does return with the cache available: the
\* rate 0 and the health "critical", whatever was logged
C39_RateAlwaysZero ==
    [][ MetricsRead =>
          /\ auditMetrics'.success_rate = RatZero
          /\ auditMetrics'.system_health = "critical" ]_vars

=============================================================================
